---- MODULE Spec2Model ----
(***************************************************************************)
(* Query-Management-Agent: the ticket store, the Resolution Engine         *)
(* (TicketAIAgent.process_ticket), the Batch Runner                        *)
(* (run_on_all_open_tickets), the Approval Gateway (approve / reject /     *)
(* review), the dashboard's review queue, the trigger views and the        *)
(* Workload Balancers (single-ticket and bulk), as in src/backend.         *)
(*                                                                         *)
(* app.py defines validate_token, approve_ticket and reject_ticket twice.  *)
(* Both definitions register the same endpoint name, and the module-level  *)
(* name ends up bound to the later one (lines 600-662); the handlers below *)
(* are those later definitions.                                            *)
(*                                                                         *)
(* Python values are strings here: None/NaN is NA, the booleans written    *)
(* into the mixed-type "Auto Solved" column are PyTrue / PyFalse, and      *)
(* datetime.now() is the tag NOW.                                          *)
(***************************************************************************)
EXTENDS Integers, Sequences, FiniteSets, TLC

VARIABLES
    tickets,   \* the Tickets sheet: ticket id -> row (column name -> cell)
    batch,     \* the background batch pass: snapshot rows still to process
    eng,       \* the process_ticket call in progress (one conversation)
    ev         \* what the last step did: inputs, reply, side effects

vars == <<tickets, batch, eng, ev>>

-----------------------------------------------------------------------------
(* Bounds of the model *)

\* how many tool calls one model message carries at most
MaxToolCalls == 2

(* Program constants *)

\* ticket_agent.py:396  max_turns = 6
max_turns == 6

-----------------------------------------------------------------------------
(* Values *)

NA == "<NA>"
PyTrue == "True"
PyFalse == "False"
NOW == "<now>"
NoToken == "<None>"

\* table_db constants imported by app.py and ticket_agent.py
AUTO_STATUS_AUTO_RESOLVED == "auto-resolved-pending-review"
AUTO_STATUS_MANAGER_REVIEWED == "manager-reviewed"

\* os.getenv("APPROVAL_SECRET", "ey_approval_secret")
APPROVAL_SECRET == "ey_approval_secret"

\* rows of the sheet, in sheet order
TicketOrder == <<"T1", "T2">>
TicketIds == {TicketOrder[i] : i \in 1..Len(TicketOrder)}

\* a sheet with one more row, and the rows a table has, in sheet order
DeskOrder == <<"T1", "T2", "T3">>
DeskIds == {DeskOrder[i] : i \in 1..Len(DeskOrder)}
SheetOrder(tbl) == SelectSeq(DeskOrder, LAMBDA t : t \in DOMAIN tbl)

\* ids a request may carry: the stored ids and an absent one
ReqIds == TicketIds \cup {"T9"}

Columns ==
    {"Ticket Status", "Auto Solved", "Assigned Team", "User Name",
     "AI Response", "Admin Review Needed", "Ticket Closed Date",
     "Ticket Updated Date"}

\* str.lower() on the status strings and team names of the model
Lower(s) ==
    CASE s = "Closed" -> "closed"
      [] s = "CLOSED" -> "closed"
      [] s = "Open" -> "open"
      [] s = "Pending Manager Approval" -> "pending manager approval"
      [] s = "Unknown" -> "unknown"
      [] s = "AP" -> "ap"
      [] s = "AR" -> "ar"
      [] OTHER -> s

\* str.upper() on the team names of the model
Upper(s) ==
    CASE s = "ap" -> "AP"
      [] s = "ar" -> "AR"
      [] OTHER -> s

\* user.json: name -> email (utils.get_user_email_by_name); bob's entry has
\* no email
get_user_email_by_name(name) ==
    CASE name = "alice" -> "alice@ey.com"
      [] name = "carol" -> "carol@ey.com"
      [] OTHER -> NA

\* a lookup that finds the manager whatever the team
get_manager_by_team_any(team_name) ==
    IF team_name = NA THEN NA ELSE "carol"

\* user.json: the first manager whose team matches the lower-cased query
\* (utils.get_manager_by_team); the roster has one manager, carol, team "AP"
get_manager_by_team(team_name) ==
    IF team_name = NA THEN NA
    ELSE IF Lower(team_name) = Lower("AP") THEN "carol"
    ELSE NA

-----------------------------------------------------------------------------
(* Approval Token Codec *)

\* hashlib.sha256(raw).hexdigest(), modelled as an injective function
Sha256Hex(raw) == "sha256(" \o raw \o ")"

\* a token that leaves the ticket id out of the hashed text
generate_approval_token_shared(ticket_id) ==
    Sha256Hex(APPROVAL_SECRET)

\* ticket_agent.py generate_approval_token
generate_approval_token(ticket_id) ==
    Sha256Hex(ticket_id \o ":" \o APPROVAL_SECRET)

\* a check that accepts any token that is present
validate_token_present(ticket_id, token) ==
    token # NoToken

\* app.py validate_token
validate_token(ticket_id, token) ==
    token = Sha256Hex(ticket_id \o ":" \o APPROVAL_SECRET)

\* tokens a request may carry: every minted token (another id's
\* token is the tampered one), the empty string, and no token parameter at all
Tokens ==
    {generate_approval_token(i) : i \in ReqIds} \cup {"", NoToken}

-----------------------------------------------------------------------------
(* Record Store Adapter *)

\* update_multiple_fields: field_map.get(field, field)
FieldMap(field) ==
    CASE field = "Team Name" -> "Assigned Team"
      [] field = "Person Name" -> "User Name"
      [] field = "Person ID" -> "User ID"
      [] field = "Ticket Create Date" -> "Creation Date"
      [] field = "Ticket Priority" -> "Priority"
      [] OTHER -> field

\* the loop over updates.items(): each pair <<field, value>> in dict order,
\* written only when the mapped column exists
RECURSIVE ApplyUpdates(_, _)
ApplyUpdates(row, updates) ==
    IF updates = <<>> THEN row
    ELSE LET f == FieldMap(Head(updates)[1])
             v == Head(updates)[2]
             r == IF f \in Columns THEN [row EXCEPT ![f] = v] ELSE row
         IN ApplyUpdates(r, Tail(updates))

\* outcomes of the workbook I/O of one call: it works, reading it raises,
\* or writing it raises (save_tickets_df catches and prints)
IoOutcomes == {"ok", "loadfail", "savefail"}

\* a date cell that holds text which is no date
TBD == "TBD"

DateColumns == {"Ticket Closed Date", "Ticket Updated Date"}

\* pd.to_datetime(.., errors='coerce') on one cell: a timestamp stays, an
\* empty cell stays empty, any other text becomes empty (NaT)
to_datetime(v) == IF v \in {NA, NOW} THEN v ELSE NA

\* get_all_tickets_df(): the frame a load returns for the stored sheet, with
\* the date columns of every row coerced
get_all_tickets_df(tbl) ==
    [t \in DOMAIN tbl |->
        [c \in DOMAIN tbl[t] |->
            IF c \in DateColumns THEN to_datetime(tbl[t][c]) ELSE tbl[t][c]]]

\* (variant) an update that reports True for an id the sheet does not hold
update_multiple_fields_lenient(tbl, ticket_id, updates, io) ==
    IF io = "loadfail" THEN [ok |-> FALSE, tbl |-> tbl]
    ELSE IF ticket_id \notin DOMAIN tbl THEN [ok |-> TRUE, tbl |-> tbl]
    ELSE [ok |-> TRUE,
          tbl |-> IF io = "savefail" THEN tbl
                  ELSE [get_all_tickets_df(tbl) EXCEPT ![ticket_id] =
                           [ApplyUpdates(get_all_tickets_df(tbl)[ticket_id],
                                         updates)
                               EXCEPT !["Ticket Updated Date"] = NOW]]]

\* update_multiple_fields(ticket_id, updates) on table tbl under I/O outcome io:
\* ok is the returned bool, tbl the persisted table afterwards: the whole
\* loaded frame df is what save_tickets_df writes back. The ids of the model
\* carry no white space, so str(ticket_id).strip() leaves them as they are.
update_multiple_fields(tbl, ticket_id, updates, io) ==
    LET search_id == ticket_id
    IN IF io = "loadfail" THEN [ok |-> FALSE, tbl |-> tbl]
       ELSE IF search_id \notin DOMAIN tbl THEN [ok |-> FALSE, tbl |-> tbl]
       ELSE LET df == get_all_tickets_df(tbl)
                row == ApplyUpdates(df[search_id], updates)
                stamped == [row EXCEPT !["Ticket Updated Date"] = NOW]
            IN [ok |-> TRUE,
                tbl |-> IF io = "savefail" THEN tbl
                        ELSE [df EXCEPT ![search_id] = stamped]]

\* the entry an update leaves in the step's effect log
UpdateEntry(ticket_id, updates, u, io) ==
    [k |-> "update", id |-> ticket_id, fields |-> updates, ok |-> u.ok,
     saved |-> (u.ok /\ io = "ok")]

-----------------------------------------------------------------------------
(* Notifier *)

\* email_service.send_email: one attempted send and what it returned
MailEntry(to_email, kind, text, attachment, sent) ==
    [k |-> "mail", to |-> to_email, kind |-> kind, text |-> text,
     links |-> <<>>, att |-> attachment, sent |-> sent]

\* the mails of a log, and the balancer calls of a log
Mails(log) == SelectSeq(log, LAMBDA e : e.k = "mail")
Assigns(log) == SelectSeq(log, LAMBDA e : e.k = "assign")
Updates(log) == SelectSeq(log, LAMBDA e : e.k = "update")

\* ticket_agent.send_requester_resolution_email: nothing is sent when the
\* roster has no email for the ticket's "User Name"
send_requester_resolution_email(ticket, ai_response, sent) ==
    LET requester_email == get_user_email_by_name(ticket["User Name"])
    IN IF requester_email = NA THEN <<>>
       ELSE <<MailEntry(requester_email, "resolved", ai_response, FALSE, sent)>>

-----------------------------------------------------------------------------
(* Workload Balancer *)

RECURSIVE Unique(_)
\* Series.unique(): the distinct values in order of first appearance
Unique(seq) ==
    IF seq = <<>> THEN <<>>
    ELSE <<Head(seq)>>
         \o Unique(SelectSeq(Tail(seq), LAMBDA x : x # Head(seq)))

\* df["User Name"] in sheet order (astype(str) leaves no missing value)
UserNames(tbl) ==
    [i \in 1..Len(SheetOrder(tbl)) |-> tbl[SheetOrder(tbl)[i]]["User Name"]]

\* len(df[(User Name == user) & (Ticket Status lower == "open")])
OpenCount(tbl, user) ==
    Cardinality({t \in DOMAIN tbl :
        /\ tbl[t]["User Name"] = user
        /\ Lower(tbl[t]["Ticket Status"]) = "open"})

\* (variant) the first key of the workload map, whatever its count
MinWorkloadFirstKey(tbl, users) == users[1]

\* min(workload, key=workload.get): the first key, in insertion order, whose
\* count is the least
MinWorkload(tbl, users) ==
    LET i == CHOOSE i \in 1..Len(users) :
                /\ \A j \in 1..Len(users) :
                       OpenCount(tbl, users[i]) <= OpenCount(tbl, users[j])
                /\ \A j \in 1..(i - 1) :
                       OpenCount(tbl, users[j]) > OpenCount(tbl, users[i])
    IN users[i]

\* app.py auto_assign_single_ticket: who was assigned (NA for None), the table
\* afterwards, and the log of the call
auto_assign_single_ticket(tbl, ticket_id, ioLoad, ioUpd) ==
    LET call(ret) == [k |-> "assign", id |-> ticket_id, ret |-> ret]
    IN IF ioLoad = "loadfail"
       THEN [assigned |-> NA, tbl |-> tbl, log |-> <<call(NA)>>]
       ELSE LET users == Unique(UserNames(tbl))
            IN IF users = <<>>
               THEN [assigned |-> NA, tbl |-> tbl, log |-> <<call(NA)>>]
               ELSE LET assigned_user == MinWorkload(tbl, users)
                        updates == <<<<"User Name", assigned_user>>>>
                        u == update_multiple_fields(tbl, ticket_id, updates, ioUpd)
                        assigned == IF u.ok THEN assigned_user ELSE NA
                    IN [assigned |-> assigned,
                        tbl |-> u.tbl,
                        log |-> <<call(assigned),
                                  UpdateEntry(ticket_id, updates, u, ioUpd)>>]

RECURSIVE SortedUsers(_, _)
\* sorted(workload, key=workload.get): the keys by rising count, keys of equal
\* count in insertion order
SortedUsers(tbl, users) ==
    IF users = <<>> THEN <<>>
    ELSE LET least == MinWorkload(tbl, users)
         IN <<least>> \o SortedUsers(tbl, SelectSeq(users, LAMBDA u : u # least))

\* (variant) the list is walked from its end
PickAssigneeFromEnd(sorted_users, i) ==
    sorted_users[Len(sorted_users) - (i % Len(sorted_users))]

\* assignee = sorted_users[i % len(sorted_users)], i counted from 0
PickAssignee(sorted_users, i) == sorted_users[(i % Len(sorted_users)) + 1]

RECURSIVE AssignLoop(_, _, _, _, _)
\* the loop of auto_assign_tickets from the k-th open ticket on: one
\* update_multiple_fields call per ticket, whose result is not read
AssignLoop(tbl, open_tickets, k, sorted_users, ios) ==
    IF k > Len(open_tickets) THEN [tbl |-> tbl, log |-> <<>>]
    ELSE LET assignee == PickAssignee(sorted_users, k - 1)
             updates == <<<<"User Name", assignee>>>>
             u == update_multiple_fields(tbl, open_tickets[k], updates, ios[k])
             rest == AssignLoop(u.tbl, open_tickets, k + 1, sorted_users, ios)
         IN [tbl |-> rest.tbl,
             log |-> <<UpdateEntry(open_tickets[k], updates, u, ios[k])>>
                     \o rest.log]

\* app.py auto_assign_tickets (the view itself) for a session of role sess:
\* the flashed message, the table afterwards and the updates in order
auto_assign_tickets(tbl, sess, ioLoad, ios) ==
    IF sess \notin {"manager", "admin"}
    THEN [reply |-> "managers only", tbl |-> tbl, log |-> <<>>]
    ELSE IF ioLoad = "loadfail"
    THEN [reply |-> "failed", tbl |-> tbl, log |-> <<>>]
    ELSE LET open_tickets ==
                 SelectSeq(SheetOrder(tbl),
                           LAMBDA t : Lower(tbl[t]["Ticket Status"]) = "open")
             assignees == Unique(UserNames(tbl))
         IN IF open_tickets = <<>>
            THEN [reply |-> "no open tickets", tbl |-> tbl, log |-> <<>>]
            ELSE IF assignees = <<>>
            THEN [reply |-> "no users", tbl |-> tbl, log |-> <<>>]
            ELSE LET sorted_users == SortedUsers(tbl, assignees)
                     r == AssignLoop(tbl, open_tickets, 1, sorted_users, ios)
                 IN [reply |-> "complete", tbl |-> r.tbl, log |-> r.log]

\* user.json: the names of the entries of role employee, in file order
employees == <<"alice", "bob">>

\* the "User Name" values intelligent_assign_tickets takes for unassigned
Unassigned(name) ==
    Lower(name) \in {"", "nan", "none", "unknown", "unassigned", "default"}

\* len(df[(User Name lower == emp.lower()) & (Ticket Status lower == "open")])
EmployeeCount(tbl, emp) ==
    Cardinality({t \in DOMAIN tbl :
        /\ Lower(tbl[t]["User Name"]) = Lower(emp)
        /\ Lower(tbl[t]["Ticket Status"]) = "open"})

RECURSIVE GreedyLoop(_, _, _)
\* the loop of intelligent_assign_tickets over the unassigned rows: each goes
\* to min(workload, key=workload.get), whose count then rises by one; the rows
\* change in the frame only
GreedyLoop(tbl, unassigned, workload) ==
    IF unassigned = <<>> THEN [tbl |-> tbl, log |-> <<>>]
    ELSE LET i == CHOOSE i \in 1..Len(employees) :
                     /\ \A j \in 1..Len(employees) :
                            workload[employees[i]] <= workload[employees[j]]
                     /\ \A j \in 1..(i - 1) :
                            workload[employees[j]] > workload[employees[i]]
             target_emp == employees[i]
             idx == Head(unassigned)
             row == [tbl[idx] EXCEPT !["User Name"] = target_emp,
                                     !["Ticket Updated Date"] = NOW]
             rest == GreedyLoop([tbl EXCEPT ![idx] = row], Tail(unassigned),
                                [workload EXCEPT ![target_emp] = @ + 1])
         IN [tbl |-> rest.tbl,
             log |-> <<[k |-> "pick", id |-> idx, to |-> target_emp]>>
                     \o rest.log]

\* table_db.intelligent_assign_tickets() for every team: the status it
\* returns, the table afterwards and the picks in order; save_tickets_df
\* keeps a failure to write to itself
intelligent_assign_tickets(tbl, ioLoad, ioSave) ==
    IF ioLoad = "loadfail"
    THEN [reply |-> "error", tbl |-> tbl, log |-> <<>>]
    ELSE LET unassigned ==
                 SelectSeq(SheetOrder(tbl),
                           LAMBDA t : /\ Lower(tbl[t]["Ticket Status"]) = "open"
                                      /\ Unassigned(tbl[t]["User Name"]))
             workload == [emp \in {employees[i] : i \in 1..Len(employees)} |->
                             EmployeeCount(tbl, emp)]
         IN IF unassigned = <<>>
            THEN [reply |-> "success", tbl |-> tbl, log |-> <<>>]
            ELSE LET r == GreedyLoop(tbl, unassigned, workload)
                 IN [reply |-> "success",
                     tbl |-> IF ioSave = "ok" THEN r.tbl ELSE tbl,
                     log |-> r.log
                             \o <<[k |-> "save", saved |-> (ioSave = "ok")]>>]

-----------------------------------------------------------------------------
(* Dashboard *)

\* app.py dashboard: review_tickets = df_tickets[df_tickets["Auto Solved"] == True],
\* the rows the managers' review queue shows
review_tickets(tbl) == {t \in DOMAIN tbl : tbl[t]["Auto Solved"] = PyTrue}

-----------------------------------------------------------------------------
(* Approval Gateway *)

\* the session a request carries: none, or a logged-in user's role
Sessions == {"none", "employee", "manager", "admin"}

\* app.py require_login (before_request): TRUE when the request is let through
\* to the view of `endpoint`
require_login(endpoint, sess) ==
    \/ endpoint \in {"login", "static"}
    \/ sess # "none"

\* app.py fetch_ticket_record, on a table that could be read: mask.any(), and
\* the first matching row
RecordFound(tbl, ticket_id) == ticket_id \in DOMAIN tbl
fetch_ticket_record(tbl, ticket_id) == tbl[ticket_id]

\* the fields approve_ticket writes
ApproveUpdates ==
    <<<<"Ticket Status", "Closed">>,
      <<"Auto Solved", AUTO_STATUS_MANAGER_REVIEWED>>,
      <<"Admin Review Needed", "No">>,
      <<"Ticket Closed Date", NOW>>>>

\* app.py approve_ticket (the view itself)
approve_ticket(tbl, ticket_id, token, ioFetch, ioUpd, sent) ==
    IF ~validate_token(ticket_id, token)
    THEN [code |-> 403, reply |-> "invalid link", tbl |-> tbl, log |-> <<>>]
    ELSE IF ioFetch = "loadfail"
    THEN [code |-> 500, reply |-> "unhandled error", tbl |-> tbl, log |-> <<>>]
    ELSE IF ~RecordFound(tbl, ticket_id)
         THEN [code |-> 404, reply |-> "not found", tbl |-> tbl, log |-> <<>>]
         ELSE LET ticket_record == fetch_ticket_record(tbl, ticket_id)
              IN LET u == update_multiple_fields(tbl, ticket_id, ApproveUpdates, ioUpd)
                     upd == UpdateEntry(ticket_id, ApproveUpdates, u, ioUpd)
                 IN IF u.ok
                    THEN [code |-> 200, reply |-> "approved", tbl |-> u.tbl,
                          log |-> <<upd>>
                              \o send_requester_resolution_email(
                                     ticket_record, ticket_record["AI Response"], sent)]
                    ELSE [code |-> 500, reply |-> "update failed", tbl |-> tbl,
                          log |-> <<upd>>]

\* the fields reject_ticket writes
RejectUpdates ==
    <<<<"Ticket Status", "Open">>,
      <<"Auto Solved", AUTO_STATUS_MANAGER_REVIEWED>>,
      <<"Admin Review Needed", "No">>>>

\* app.py reject_ticket (the view itself)
reject_ticket(tbl, ticket_id, token, ioUpd, ioLoad2, ioUpd2) ==
    IF ~validate_token(ticket_id, token)
    THEN [code |-> 403, reply |-> "invalid link", tbl |-> tbl, log |-> <<>>]
    ELSE LET u == update_multiple_fields(tbl, ticket_id, RejectUpdates, ioUpd)
             upd == UpdateEntry(ticket_id, RejectUpdates, u, ioUpd)
         IN IF ~u.ok
            THEN [code |-> 500, reply |-> "update failed", tbl |-> tbl,
                  log |-> <<upd>>]
            ELSE LET a == auto_assign_single_ticket(u.tbl, ticket_id, ioLoad2, ioUpd2)
                 IN [code |-> 200,
                     reply |-> IF a.assigned # NA THEN "reopened, assigned"
                               ELSE "reopened, not assigned",
                     tbl |-> a.tbl,
                     log |-> <<upd>> \o a.log]

\* (variant) confirm_closed writes what reopen writes
ReviewUpdatesReopening(action) ==
    <<<<"Ticket Status", "Open">>, <<"Auto Solved", PyFalse>>,
      <<"Admin Review Needed", "No">>>>

\* the fields review_ticket_action writes for each action
ReviewUpdates(action) ==
    IF action = "confirm_closed"
    THEN <<<<"Auto Solved", PyFalse>>, <<"Admin Review Needed", "No">>>>
    ELSE <<<<"Ticket Status", "Open">>, <<"Auto Solved", PyFalse>>,
           <<"Admin Review Needed", "No">>>>

ReviewActions == {"confirm_closed", "reopen", "other"}

\* app.py review_ticket_action (the view itself): for reopen the balancer
\* runs first, on the table as it is, and the update follows
review_ticket_action(tbl, ticket_id, action, sess, ioLoad1, ioUpd1, ioUpd) ==
    IF sess \notin {"manager", "admin"}
    THEN [code |-> 302, reply |-> "managers only", tbl |-> tbl, log |-> <<>>]
    ELSE IF action \notin {"confirm_closed", "reopen"}
    THEN [code |-> 302, reply |-> "invalid action", tbl |-> tbl, log |-> <<>>]
    ELSE LET a == IF action = "reopen"
                  THEN auto_assign_single_ticket(tbl, ticket_id, ioLoad1, ioUpd1)
                  ELSE [assigned |-> NA, tbl |-> tbl, log |-> <<>>]
             updates == ReviewUpdates(action)
             u == update_multiple_fields(a.tbl, ticket_id, updates, ioUpd)
         IN [code |-> 302,
             reply |-> IF u.ok THEN action ELSE "update failed",
             tbl |-> u.tbl,
             log |-> a.log \o <<UpdateEntry(ticket_id, updates, u, ioUpd)>>]

-----------------------------------------------------------------------------
(* Resolution Engine: TicketAIAgent.process_ticket *)

\* the Invoice sheet: two invoices
InvoiceNumbers == {"INV-1", "INV-2"}

\* table_db.search_invoices({"Invoice Number": ref}): the matching rows
search_invoices(ref) == IF ref \in InvoiceNumbers THEN <<ref>> ELSE <<>>

\* extract_invoice_candidates(ticket) for the tickets of the model: T1's
\* description names a reference that matches no invoice, then invoice INV-1,
\* then invoice INV-2; T2's names none
extract_invoice_candidates(ticket_id) ==
    IF ticket_id = "T1" THEN <<"INV-404", "INV-1", "INV-2">> ELSE <<>>

RECURSIVE FirstMatch(_)
\* the loop of _resolve_invoice_data_for_document over the candidates
FirstMatch(candidates) ==
    IF candidates = <<>> THEN NA
    ELSE IF search_invoices(Head(candidates)) # <<>>
         THEN search_invoices(Head(candidates))[1]
         ELSE FirstMatch(Tail(candidates))

\* a lookup that falls back to the first invoice of the sheet
resolve_invoice_data_for_document_default(ticket_id, cached_invoice) ==
    IF cached_invoice # NA THEN cached_invoice ELSE "INV-1"

\* TicketAIAgent._resolve_invoice_data_for_document
resolve_invoice_data_for_document(ticket_id, cached_invoice) ==
    IF cached_invoice # NA THEN cached_invoice
    ELSE FirstMatch(extract_invoice_candidates(ticket_id))

\* ticket_agent.get_submitter_email: the sheet has no requester columns, so
\* the email is the roster's for the ticket's "User Name"
get_submitter_email(row) == get_user_email_by_name(row["User Name"])

\* links that both point at the approve route
ApprovalLinksSame(ticket_id) ==
    LET token == generate_approval_token(ticket_id)
        base_url == "http://localhost:5000"
    IN <<base_url \o "/ticket/approve/" \o ticket_id \o "?token=" \o token,
         base_url \o "/ticket/approve/" \o ticket_id \o "?token=" \o token>>

\* the approve and reject links of the approval mail (APP_BASE_URL default)
ApprovalLinks(ticket_id) ==
    LET token == generate_approval_token(ticket_id)
        base_url == "http://localhost:5000"
    IN <<base_url \o "/ticket/approve/" \o ticket_id \o "?token=" \o token,
         base_url \o "/ticket/reject/" \o ticket_id \o "?token=" \o token>>

\* the tool calls a model message may carry. closure NA: the arguments lack
\* "closure_type"; name "badjson": the arguments are not JSON
ResolveCalls ==
    {[name |-> "resolve_ticket", closure |-> c, auto |-> a, doc |-> d, arg |-> NA] :
        c \in {"without_document", "needs_approval", "reassign_billing", NA},
        a \in {PyTrue, PyFalse}, d \in {"none"}}
    \cup
    {[name |-> "resolve_ticket", closure |-> "with_document", auto |-> PyTrue,
      doc |-> d, arg |-> NA] : d \in {"invoice_copy", "payment_confirmation"}}

ReassignCalls ==
    {[name |-> "reassign_ticket_and_notify", closure |-> NA, auto |-> NA,
      doc |-> NA, arg |-> team] : team \in {"AP", "ar"}}

OtherCalls ==
    {[name |-> "search_invoices", closure |-> NA, auto |-> NA, doc |-> NA,
      arg |-> ref] : ref \in {"INV-1", "INV-404"}}
    \cup
    {[name |-> n, closure |-> NA, auto |-> NA, doc |-> NA, arg |-> NA] :
        n \in {"lookup_vendor", "badjson"}}

ToolCalls == ResolveCalls \cup ReassignCalls \cup OtherCalls

\* the model's text when it answers without a tool call
ModelText == "R"

\* a loop that allows one turn more
LoopContinuesInclusive(turn) == turn <= max_turns

\* for turn in range(max_turns): whether another turn starts after `turn` turns
LoopContinues(turn) == turn < max_turns

\* a closed check that compares the status as it is spelled
AlreadyClosedExact(row) == row["Ticket Status"] = "Closed"

\* process_ticket's first lines: the call returns at once for a closed ticket
AlreadyClosed(row) == Lower(row["Ticket Status"]) = "closed"

\* a resolve_ticket that leaves the review flag alone
ResolveUpdatesNoReview(tc) ==
    <<<<"Auto Solved", tc.auto>>, <<"AI Response", ModelText>>,
      <<"Ticket Updated Date", NOW>>>>
    \o (IF tc.closure = "needs_approval"
        THEN <<<<"Ticket Status", "Pending Manager Approval">>>>
        ELSE <<<<"Ticket Status", "Closed">>>>)

\* a resolve_ticket that sets a status for the documented closure types only
ResolveUpdatesKnownOnly(tc) ==
    <<<<"Auto Solved", tc.auto>>, <<"AI Response", ModelText>>,
      <<"Ticket Updated Date", NOW>>>>
    \o (IF tc.closure = "needs_approval"
        THEN <<<<"Ticket Status", "Pending Manager Approval">>,
               <<"Admin Review Needed", "Yes">>>>
        ELSE IF tc.closure \in {"with_document", "without_document"}
        THEN <<<<"Ticket Status", "Closed">>>>
        ELSE <<>>)

\* the update_dict of a resolve_ticket call, in the order the code fills it
ResolveUpdates(tc) ==
    <<<<"Auto Solved", tc.auto>>, <<"AI Response", ModelText>>,
      <<"Ticket Updated Date", NOW>>>>
    \o (IF tc.closure = "needs_approval"
        THEN <<<<"Ticket Status", "Pending Manager Approval">>,
               <<"Admin Review Needed", "Yes">>>>
        ELSE <<<<"Ticket Status", "Closed">>>>)

\* the resolve_ticket branch of process_ticket: the table afterwards, the
\* returned string and the effects in order. env: io (the store update),
\* render (whether the PDF was written), sent (what send_email returned)
\* (variant) a send that failed is made once more
RequesterMailRetried(recipient_email, attachment, sent) ==
    IF sent
    THEN <<MailEntry(recipient_email, "update", ModelText, attachment, sent)>>
    ELSE <<MailEntry(recipient_email, "update", ModelText, attachment, sent),
           MailEntry(recipient_email, "update", ModelText, attachment, sent)>>

\* lines 592-604: the one send_email call to the requester, whose result is
\* only printed
RequesterMail(recipient_email, attachment, sent) ==
    <<MailEntry(recipient_email, "update", ModelText, attachment, sent)>>

resolve_ticket(tbl, ticket_id, row, tc, cached, env) ==
    LET updates == ResolveUpdates(tc)
        manager == get_manager_by_team(row["Assigned Team"])
        approval ==
            IF tc.closure = "needs_approval" /\ manager # NA
            THEN <<[MailEntry(get_user_email_by_name(manager), "approval",
                              ModelText, FALSE, env.sent)
                    EXCEPT !.links = ApprovalLinks(ticket_id)]>>
            ELSE <<>>
        recipient_email ==
            IF tc.closure = "needs_approval" THEN NA ELSE get_submitter_email(row)
        invoice_payload ==
            IF tc.closure = "with_document"
            THEN resolve_invoice_data_for_document(ticket_id, cached)
            ELSE NA
        rendering ==
            IF tc.closure = "with_document" /\ invoice_payload # NA
            THEN <<[k |-> "render",
                    doc |-> IF tc.doc \in {"payment_confirmation", "invoice_details"}
                            THEN tc.doc ELSE "invoice_copy",
                    invoice |-> invoice_payload, ok |-> env.render]>>
            ELSE <<>>
        attachment == rendering # <<>> /\ env.render
        u == update_multiple_fields(tbl, ticket_id, updates, env.io)
        notify ==
            IF u.ok /\ recipient_email # NA /\ tc.closure # "needs_approval"
            THEN RequesterMail(recipient_email, attachment, env.sent)
            ELSE <<>>
    IN [tbl |-> u.tbl,
        reply |-> "Ticket " \o ticket_id \o ": " \o tc.closure,
        log |-> approval \o rendering
                \o <<UpdateEntry(ticket_id, updates, u, env.io)>> \o notify]

\* the update_dict of a reassign_ticket_and_notify call
ReassignUpdates(tc) ==
    <<<<"Assigned Team", Upper(tc.arg)>>, <<"Ticket Status", "Open">>,
      <<"Ticket Updated Date", NOW>>, <<"AI Response", ModelText>>,
      <<"Auto Solved", PyFalse>>>>

\* the reassign_ticket_and_notify branch of process_ticket
reassign_ticket_and_notify(tbl, ticket_id, row, tc, env) ==
    LET updates == ReassignUpdates(tc)
        u == update_multiple_fields(tbl, ticket_id, updates, env.io)
        requester_email == get_submitter_email(row)
        assigned_email == get_user_email_by_name(row["User Name"])
        toRequester ==
            IF requester_email # NA
            THEN <<MailEntry(requester_email, "assigned to specialist",
                             Upper(tc.arg), FALSE, env.sent)>>
            ELSE <<>>
        toAssigned ==
            IF assigned_email # NA
            THEN <<MailEntry(assigned_email, "new ticket", Upper(tc.arg), FALSE,
                             env.sent)>>
            ELSE <<>>
    IN [tbl |-> u.tbl,
        reply |-> IF u.ok THEN "Ticket " \o ticket_id \o " reassigned to "
                               \o Upper(tc.arg)
                  ELSE "Reassignment failed",
        log |-> <<UpdateEntry(ticket_id, updates, u, env.io)>>
                \o (IF u.ok THEN toRequester \o toAssigned ELSE <<>>)]

-----------------------------------------------------------------------------
(* State *)

\* what a step leaves in ev: the operation, the ticket id, the session (or the
\* caller), the argument, the HTTP status, the reply, the model calls made so
\* far in the conversation, and the effects in order
Event(op, id, sess, arg, code, reply, calls, log) ==
    [op |-> op, id |-> id, sess |-> sess, arg |-> arg, code |-> code,
     reply |-> reply, calls |-> calls, log |-> log]

IdleEngine ==
    [pc |-> "idle", caller |-> NA, id |-> NA, row |-> <<>>, turn |-> 0,
     idx |-> 0, cached |-> NA]

IdleBatch == [active |-> FALSE, queue |-> <<>>]

\* a row of the sheet
Row(status, auto, team, user, ai, review) ==
    [c \in Columns |->
        CASE c = "Ticket Status" -> status
          [] c = "Auto Solved" -> auto
          [] c = "Assigned Team" -> team
          [] c = "User Name" -> user
          [] c = "AI Response" -> ai
          [] c = "Admin Review Needed" -> review
          [] OTHER -> NA]

\* rows the agent has not touched yet: Open, or closed in some spelling
FreshRows ==
    {Row(status, NA, team, user, NA, NA) :
        status \in {"Open", "CLOSED"}, team \in {"AP", "AR"},
        user \in {"alice", "bob"}}

\* rows as an earlier pass left them: waiting for the manager, or closed
PendingRows ==
    {Row("Pending Manager Approval", PyTrue, "AP", user, ModelText, "Yes") :
        user \in {"alice", "bob"}}

ClosedRows ==
    {Row("Closed", PyTrue, "AP", user, ModelText, NA) : user \in {"alice", "bob"}}

Quiet ==
    /\ batch = IdleBatch
    /\ eng = IdleEngine
    /\ ev = Event("init", NA, NA, NA, 0, "", 0, <<>>)

-----------------------------------------------------------------------------
(* Requests to the Approval Gateway *)

\* what ev keeps of a link request's session: only whether there is one
LinkSession(sess) == IF sess = "none" THEN "none" ELSE "user"

\* the I/O outcomes worth drawing for a request: all of them when the request
\* gets as far as the store, one otherwise
IoFor(reaches, outcomes) == IF reaches THEN outcomes ELSE {"ok"}
BoolFor(reaches) == IF reaches THEN BOOLEAN ELSE {TRUE}

\* GET /ticket/approve/<ticket_id>?token=...
ApproveOver(ids, tokens, sessions, outcomes) ==
    \E ticket_id \in ids, token \in tokens, sess \in sessions :
        IF ~require_login("approve_ticket", sess)
        THEN /\ ev' = Event("approve", ticket_id, LinkSession(sess), token,
                            302, "login", 0, <<>>)
             /\ UNCHANGED <<tickets, batch, eng>>
        ELSE LET reaches == validate_token(ticket_id, token)
             IN \E ioFetch \in IoFor(reaches, outcomes \ {"savefail"}),
                   ioUpd \in IoFor(reaches, outcomes),
                   sent \in BoolFor(reaches) :
                   LET r == approve_ticket(tickets, ticket_id, token,
                                           ioFetch, ioUpd, sent)
                   IN /\ tickets' = r.tbl
                      /\ ev' = Event("approve", ticket_id, LinkSession(sess),
                                     token, r.code, r.reply, 0, r.log)
                      /\ UNCHANGED <<batch, eng>>

\* GET /ticket/reject/<ticket_id>?token=...
RejectOver(ids, tokens, sessions, outcomes) ==
    \E ticket_id \in ids, token \in tokens, sess \in sessions :
        IF ~require_login("reject_ticket", sess)
        THEN /\ ev' = Event("reject", ticket_id, LinkSession(sess), token,
                            302, "login", 0, <<>>)
             /\ UNCHANGED <<tickets, batch, eng>>
        ELSE LET reaches == validate_token(ticket_id, token)
             IN \E ioUpd \in IoFor(reaches, outcomes),
                   ioLoad2 \in IoFor(reaches, outcomes \ {"savefail"}),
                   ioUpd2 \in IoFor(reaches, outcomes) :
                   LET r == reject_ticket(tickets, ticket_id, token,
                                          ioUpd, ioLoad2, ioUpd2)
                   IN /\ tickets' = r.tbl
                      /\ ev' = Event("reject", ticket_id, LinkSession(sess),
                                     token, r.code, r.reply, 0, r.log)
                      /\ UNCHANGED <<batch, eng>>

\* POST /review_ticket_action/<ticket_id>
ReviewOver(ids, actions, sessions, outcomes) ==
    \E ticket_id \in ids, action \in actions, sess \in sessions :
        IF ~require_login("review_ticket_action", sess)
        THEN /\ ev' = Event("review", ticket_id, sess, action, 302, "login",
                            0, <<>>)
             /\ UNCHANGED <<tickets, batch, eng>>
        ELSE LET reaches == sess \in {"manager", "admin"}
                            /\ action \in {"confirm_closed", "reopen"}
                 balances == reaches /\ action = "reopen"
             IN \E ioLoad1 \in IoFor(balances, outcomes \ {"savefail"}),
                   ioUpd1 \in IoFor(balances, outcomes),
                   ioUpd \in IoFor(reaches, outcomes) :
                   LET r == review_ticket_action(tickets, ticket_id, action,
                                                 sess, ioLoad1, ioUpd1, ioUpd)
                   IN /\ tickets' = r.tbl
                      /\ ev' = Event("review", ticket_id, sess, action,
                                     r.code, r.reply, 0, r.log)
                      /\ UNCHANGED <<batch, eng>>

\* The gateway on its own. Its requests name T1 or the absent T9 (T2 is the
\* other row of the sheet, which no request may change); a link request comes
\* without a session or with one, whose role the views never read.
GatewayIds == {"T1", "T9"}
LinkSessions == {"none", "manager"}

Approve == ApproveOver(GatewayIds, Tokens, LinkSessions, IoOutcomes)
Reject == RejectOver(GatewayIds, Tokens, LinkSessions, IoOutcomes)
Review == ReviewOver(GatewayIds, ReviewActions, Sessions, IoOutcomes)

\* a sheet earlier passes have worked on: T1 waits for the manager, is closed
\* or is untouched; T2 is an untouched ticket of bob's
InitGateway ==
    /\ tickets \in [TicketIds -> PendingRows \cup ClosedRows \cup FreshRows]
    /\ tickets["T1"]["Assigned Team"] = "AP"
    /\ tickets["T1"]["Ticket Status"] # "CLOSED"
    /\ tickets["T2"] \in FreshRows
    /\ tickets["T2"]["Assigned Team"] = "AR"
    /\ tickets["T2"]["User Name"] = "bob"
    /\ Quiet

NextGateway ==
    \/ Approve
    \/ Reject
    \/ Review

SpecGateway == InitGateway /\ [][NextGateway]_vars

-----------------------------------------------------------------------------
(* The Resolution Engine and the Batch Runner, step by step *)

\* a call that ends by raising: the exception leaves process_ticket, and from
\* a batch pass it leaves run_on_all_open_tickets too (run_agent_job catches
\* it), so the rest of the snapshot is dropped
Raised(op, err) ==
    /\ ev' = Event(op, eng.id, eng.caller, NA, 0, err, eng.turn, <<>>)
    /\ eng' = IdleEngine
    /\ batch' = IF eng.caller = "batch" THEN IdleBatch ELSE batch
    /\ UNCHANGED tickets

\* process_ticket(ticket) is entered: lines 377-397
EnterCall(caller, ticket_id, row) ==
    IF AlreadyClosed(row)
    THEN /\ ev' = Event("process_ticket", ticket_id, caller, NA, 0,
                        "Ticket is already closed.", 0, <<>>)
         /\ eng' = IdleEngine
    ELSE /\ ev' = Event("process_ticket", ticket_id, caller, NA, 0, "", 0, <<>>)
         /\ eng' = [pc |-> "model", caller |-> caller, id |-> ticket_id,
                    row |-> row, turn |-> 0, idx |-> 0, cached |-> NA]

\* run_on_all_open_tickets: the snapshot of the sheet and the rows it keeps,
\* in sheet order
OpenTickets(tbl) ==
    LET all == [i \in 1..Len(SheetOrder(tbl)) |->
                   [id |-> SheetOrder(tbl)[i], row |-> tbl[SheetOrder(tbl)[i]]]]
    IN SelectSeq(all, LAMBDA t : Lower(t.row["Ticket Status"]) # "closed")

\* a batch pass starts on behalf of `starter` (one pass at a time in this
\* model)
StartPass(starter) ==
    /\ ~batch.active
    /\ eng.pc = "idle"
    /\ batch' = [active |-> TRUE, queue |-> OpenTickets(tickets)]
    /\ ev' = Event("batch_start", NA, starter, NA, 0, "", 0, <<>>)
    /\ UNCHANGED <<tickets, eng>>

\* run_on_all_open_tickets is called from the command line
BatchStart == StartPass("batch")

\* the pass hands the next row of its snapshot to process_ticket
BatchNext ==
    /\ batch.active
    /\ eng.pc = "idle"
    /\ batch.queue # <<>>
    /\ batch' = [batch EXCEPT !.queue = Tail(@)]
    /\ EnterCall("batch", Head(batch.queue).id, Head(batch.queue).row)
    /\ UNCHANGED tickets

\* the pass has gone through its snapshot
BatchEnd ==
    /\ batch.active
    /\ eng.pc = "idle"
    /\ batch.queue = <<>>
    /\ batch' = IdleBatch
    /\ ev' = Event("batch_end", NA, "batch", NA, 0, "", 0, <<>>)
    /\ UNCHANGED <<tickets, eng>>

\* some other caller passes a row of the sheet to process_ticket
DirectCallOver(ids) ==
    /\ ~batch.active
    /\ eng.pc = "idle"
    /\ \E ticket_id \in ids : EnterCall("direct", ticket_id, tickets[ticket_id])
    /\ UNCHANGED <<tickets, batch>>

\* one client.chat.completions.create call and what comes back: an exception,
\* a message without tool calls, or a message with tool calls
ModelCallOver(kinds) ==
    /\ eng.pc = "model"
    /\ \E kind \in kinds :
          CASE kind = "raise" ->
                 /\ ev' = Event("model_call", eng.id, eng.caller, kind, 0,
                                "raised", eng.turn + 1, <<>>)
                 /\ eng' = IdleEngine
                 /\ batch' = IF eng.caller = "batch" THEN IdleBatch ELSE batch
            [] kind = "text" ->
                 /\ ev' = Event("model_call", eng.id, eng.caller, kind, 0,
                                ModelText, eng.turn + 1, <<>>)
                 /\ eng' = IdleEngine
                 /\ UNCHANGED batch
            [] OTHER ->
                 /\ ev' = Event("model_call", eng.id, eng.caller, kind, 0,
                                "", eng.turn + 1, <<>>)
                 /\ eng' = [eng EXCEPT !.pc = "dispatch", !.turn = @ + 1,
                                       !.idx = 0]
                 /\ UNCHANGED batch
    /\ UNCHANGED tickets

\* the effects a terminal tool call draws from its surroundings,
\* a search_invoices branch that returns from process_ticket
AfterSearchReturns(e, results) ==
    [e EXCEPT !.pc = "idle",
              !.cached = IF results # <<>> THEN results[1] ELSE @]

\* (variant) a search_invoices branch that keeps the first result the
\* conversation found
AfterSearchKeepsFirst(e, results) ==
    [e EXCEPT !.idx = @ + 1,
              !.cached = IF results # <<>> /\ @ = NA THEN results[1] ELSE @]

\* the search_invoices branch of the tool loop: the first result is kept as
\* last_invoice_data, the tool message is appended, and the loop goes on to
\* the next tool call
AfterSearch(e, results) ==
    [e EXCEPT !.idx = @ + 1,
              !.cached = IF results # <<>> THEN results[1] ELSE @]

\* (variant) a terminal branch that goes on to the next tool call of the turn
AfterTerminalContinues(e) == [e EXCEPT !.idx = @ + 1]

\* the return that ends the resolve_ticket and reassign_ticket_and_notify
\* branches: process_ticket is left, whatever else the turn lists
AfterTerminal(e) == IdleEngine

\* drawn only where the call reads them: the store and the mail server for a
\* terminal call, the PDF writer for a closure with a document
EnvsFor(tc, outcomes) ==
    IF tc.name \in {"resolve_ticket", "reassign_ticket_and_notify"}
    THEN [io : outcomes,
          render : IF tc.closure = "with_document" /\ outcomes # {"ok"}
                   THEN BOOLEAN ELSE {TRUE},
          sent : IF outcomes # {"ok"} THEN BOOLEAN ELSE {TRUE}]
    ELSE [io : {"ok"}, render : {TRUE}, sent : {TRUE}]

\* the for loop over msg.tool_calls, one tool call (or the end of the list)
\* at a step
DispatchOver(calls, outcomes) ==
    /\ eng.pc = "dispatch"
    /\ \E tc \in (IF eng.idx < MaxToolCalls THEN calls ELSE {})
                 \cup (IF eng.idx >= 1 THEN {[name |-> "end of list"]} ELSE {}) :
       \E env \in EnvsFor(tc, outcomes) :
          CASE tc.name = "end of list" ->
                 /\ IF LoopContinues(eng.turn)
                    THEN /\ eng' = [eng EXCEPT !.pc = "model"]
                         /\ ev' = Event("dispatch", eng.id, eng.caller, tc.name,
                                        0, "", eng.turn, <<>>)
                    ELSE /\ eng' = IdleEngine
                         /\ ev' = Event("dispatch", eng.id, eng.caller, tc.name,
                                        0, "Max turns reached without resolution",
                                        eng.turn, <<>>)
                 /\ UNCHANGED <<tickets, batch>>
            [] tc.name = "badjson" -> Raised("dispatch", "raised")
            [] tc.name = "search_invoices" ->
                 LET results == search_invoices(tc.arg)
                 IN /\ eng' = AfterSearch(eng, results)
                    /\ ev' = Event("dispatch", eng.id, eng.caller, tc.name, 0,
                                   "", eng.turn,
                                   <<[k |-> "tool result", content |-> results]>>)
                    /\ UNCHANGED <<tickets, batch>>
            [] tc.name = "resolve_ticket" ->
                 IF tc.closure = NA THEN Raised("dispatch", "raised")
                 ELSE LET r == resolve_ticket(tickets, eng.id, eng.row, tc,
                                              eng.cached, env)
                      IN /\ tickets' = r.tbl
                         /\ eng' = AfterTerminal(eng)
                         /\ ev' = Event("dispatch", eng.id, eng.caller,
                                        tc.closure, 0, r.reply, eng.turn, r.log)
                         /\ UNCHANGED batch
            [] tc.name = "reassign_ticket_and_notify" ->
                 LET r == reassign_ticket_and_notify(tickets, eng.id, eng.row,
                                                     tc, env)
                 IN /\ tickets' = r.tbl
                    /\ eng' = AfterTerminal(eng)
                    /\ ev' = Event("dispatch", eng.id, eng.caller,
                                   "reassign:" \o tc.arg, 0, r.reply, eng.turn,
                                   r.log)
                    /\ UNCHANGED batch
            [] OTHER ->
                 /\ eng' = [eng EXCEPT !.idx = @ + 1]
                 /\ ev' = Event("dispatch", eng.id, eng.caller, tc.name, 0, "",
                                eng.turn, <<>>)
                 /\ UNCHANGED <<tickets, batch>>

ModelKinds == {"raise", "text", "tools"}

DirectCall == DirectCallOver(TicketIds)
ModelCall == ModelCallOver(ModelKinds)
Dispatch == DispatchOver(ToolCalls, IoOutcomes)

\* the engine on its own, on an untouched sheet: T1 is Open, T2 is Open (of
\* alice's or of bob's) or closed
InitEngine ==
    /\ tickets \in [TicketIds -> FreshRows]
    /\ tickets["T1"] = Row("Open", NA, "AP", "alice", NA, NA)
    /\ tickets["T2"]["Assigned Team"] = "AR"
    /\ (tickets["T2"]["User Name"] = "alice"
           => tickets["T2"]["Ticket Status"] = "Open")
    /\ Quiet

NextEngine ==
    \/ BatchStart
    \/ BatchNext
    \/ BatchEnd
    \/ DirectCall
    \/ ModelCall
    \/ Dispatch

SpecEngine == InitEngine /\ [][NextEngine]_vars

\* The engine asked for documents: every call is answered with tool calls,
\* which search the Invoice sheet or close the ticket with a document, and
\* every store access succeeds. T1 names invoices, T2 names none.
DocumentCalls ==
    {[name |-> "search_invoices", closure |-> NA, auto |-> NA, doc |-> NA,
      arg |-> ref] : ref \in {"INV-1", "INV-2", "INV-404"}}
    \cup
    {[name |-> "resolve_ticket", closure |-> "with_document", auto |-> PyTrue,
      doc |-> "invoice_copy", arg |-> NA]}

DocumentCall == DirectCallOver(TicketIds)
DocumentModel == ModelCallOver({"tools"})
DocumentDispatch == DispatchOver(DocumentCalls, {"ok"})

InitDocument ==
    /\ tickets = [t \in TicketIds |->
                     IF t = "T1" THEN Row("Open", NA, "AP", "alice", NA, NA)
                     ELSE Row("Open", NA, "AR", "alice", NA, NA)]
    /\ Quiet

NextDocument ==
    \/ DocumentCall
    \/ DocumentModel
    \/ DocumentDispatch

SpecDocument == InitDocument /\ [][NextDocument]_vars

-----------------------------------------------------------------------------
(* The Record Store Adapter on its own: callers of update_multiple_fields *)

\* update dicts of callers: the alias of the team column, the column itself,
\* the alias of a column the sheet does not have, the alias of the name
\* column, and a closure with its date
StoreUpdates ==
    {<< <<"Team Name", "AR">> >>,
     << <<"Assigned Team", "AP">> >>,
     << <<"Ticket Priority", "High">> >>,
     << <<"Person Name", "bob">> >>,
     << <<"Ticket Status", "Closed">>, <<"Ticket Closed Date", NOW>> >>}

\* one call update_multiple_fields(ticket_id, updates)
StoreUpdate ==
    \E ticket_id \in ReqIds, updates \in StoreUpdates, io \in IoOutcomes :
        LET u == update_multiple_fields(tickets, ticket_id, updates, io)
        IN /\ tickets' = u.tbl
           /\ ev' = Event("update", ticket_id, NA, NA, 0,
                          IF u.ok THEN PyTrue ELSE PyFalse, 0,
                          <<UpdateEntry(ticket_id, updates, u, io)>>)
           /\ UNCHANGED <<batch, eng>>

\* sheets of two rows; the closed date of T2 is a timestamp, empty, or text
InitStore ==
    /\ \E r1 \in FreshRows, d2 \in {NA, NOW, TBD} :
          tickets = [t \in TicketIds |->
                        IF t = "T1" THEN r1
                        ELSE [Row("Closed", NA, "AR", "bob", NA, NA)
                                 EXCEPT !["Ticket Closed Date"] = d2]]
    /\ Quiet

NextStore == StoreUpdate

SpecStore == InitStore /\ [][NextStore]_vars

-----------------------------------------------------------------------------
(* Requests to the triggers *)

\* (variant) the view starts the job for every logged-in session
process_tickets_any_role(sess) == TRUE

\* app.py process_tickets (the view itself): TRUE when it starts the thread
\* that runs run_on_all_open_tickets
process_tickets(sess) == sess \in {"admin", "manager"}

\* GET /process_tickets
ProcessTicketsOver(sessions) ==
    \E sess \in sessions :
        IF ~require_login("process_tickets", sess)
        THEN /\ ev' = Event("process_tickets", NA, sess, NA, 302, "login",
                            0, <<>>)
             /\ UNCHANGED <<tickets, batch, eng>>
        ELSE IF ~process_tickets(sess)
        THEN /\ ev' = Event("process_tickets", NA, sess, NA, 302,
                            "managers only", 0, <<>>)
             /\ UNCHANGED <<tickets, batch, eng>>
        ELSE StartPass(sess)

\* GET /auto_assign_tickets: each store access of the view has its own outcome
AutoAssignOver(sessions, outcomes) ==
    \E sess \in sessions :
        IF ~require_login("auto_assign_tickets", sess)
        THEN /\ ev' = Event("auto_assign_tickets", NA, sess, NA, 302, "login",
                            0, <<>>)
             /\ UNCHANGED <<tickets, batch, eng>>
        ELSE LET reaches == sess \in {"manager", "admin"}
             IN \E ioLoad \in IoFor(reaches, outcomes \ {"savefail"}),
                   ios \in [1..Len(DeskOrder) -> IoFor(reaches, outcomes)] :
                   LET r == auto_assign_tickets(tickets, sess, ioLoad, ios)
                   IN /\ tickets' = r.tbl
                      /\ ev' = Event("auto_assign_tickets", NA, sess, NA, 302,
                                     r.reply, 0, r.log)
                      /\ UNCHANGED <<batch, eng>>

\* some caller runs table_db.intelligent_assign_tickets()
IntelligentAssignOver(outcomes) ==
    \E ioLoad \in outcomes \ {"savefail"}, ioSave \in outcomes \ {"loadfail"} :
        LET r == intelligent_assign_tickets(tickets, ioLoad, ioSave)
        IN /\ tickets' = r.tbl
           /\ ev' = Event("intelligent_assign_tickets", NA, "direct", NA, 0,
                          r.reply, 0, r.log)
           /\ UNCHANGED <<batch, eng>>

\* The balancers on a sheet of three tickets, each Open or Closed and in the
\* hands of alice, of bob or of nobody yet
DeskRows ==
    {Row(status, NA, "AP", user, NA, NA) :
        status \in {"Open", "Closed"}, user \in {"alice", "bob", "Unknown"}}

AutoAssign == AutoAssignOver(Sessions, IoOutcomes)
IntelligentAssign == IntelligentAssignOver(IoOutcomes)

InitDesk ==
    /\ tickets \in [DeskIds -> DeskRows]
    /\ Quiet

NextDesk ==
    \/ AutoAssign
    \/ IntelligentAssign

SpecDesk == InitDesk /\ [][NextDesk]_vars

-----------------------------------------------------------------------------
(* The whole system: batch passes in the background thread while the gateway
   serves requests *)

\* here the model answers with one terminal tool call, the store and the mail
\* server work, every link carries a minted token and a manager is logged in
SystemKinds == {"text", "tools"}

SystemCalls ==
    {tc \in ResolveCalls :
        /\ tc.closure \in {"without_document", "needs_approval"}
        /\ tc.auto = PyTrue}
    \cup {tc \in ReassignCalls : tc.arg = "AP"}

\* the ticket the requests are about
SystemIds == {"T1"}
SystemTokens == {generate_approval_token(i) : i \in SystemIds}

\* who asks the triggers and the review action: nobody logged in, an employee
\* or a manager
SystemSessions == {"none", "employee", "manager"}

ModelReply == ModelCallOver(SystemKinds)
ToolDispatch == DispatchOver(SystemCalls, {"ok"})
ApproveLink == ApproveOver(SystemIds, SystemTokens, {"manager"}, {"ok"})
RejectLink == RejectOver(SystemIds, SystemTokens, {"manager"}, {"ok"})
ReviewRequest ==
    ReviewOver(SystemIds, {"confirm_closed", "reopen"}, SystemSessions, {"ok"})
ProcessTicketsRequest == ProcessTicketsOver(SystemSessions)
AutoAssignRequest == AutoAssignOver(SystemSessions, {"ok"})

\* a new ticket, T1, beside one closed by hand long ago
Init ==
    /\ tickets = [t \in TicketIds |->
                     IF t = "T1" THEN Row("Open", NA, "AP", "alice", NA, NA)
                     ELSE Row("Closed", NA, "AR", "bob", NA, NA)]
    /\ Quiet

Next ==
    \/ ProcessTicketsRequest
    \/ AutoAssignRequest
    \/ BatchNext
    \/ BatchEnd
    \/ ModelReply
    \/ ToolDispatch
    \/ ApproveLink
    \/ RejectLink
    \/ ReviewRequest

Spec == Init /\ [][Next]_vars

-----------------------------------------------------------------------------
(* Threads: the passes /process_tickets starts and a gateway request *)

\* In this specification eng maps a thread to its frame and batch maps a pass
\* to the rest of its snapshot. Each GET /process_tickets starts a thread of
\* its own (threading.Thread(target=run_agent_job).start(), with no check for
\* one that is running); two of them and one request thread of the web server
\* are modelled. Threads interleave between the load and the save of
\* update_multiple_fields, which take no lock. The model answers text or one
\* resolve_ticket call, and every workbook access succeeds.
Passes == {"pass1", "pass2"}
Threads == Passes \cup {"request"}

IdleThread ==
    [pc |-> "idle", id |-> NA, row |-> <<>>, df |-> <<>>, results |-> <<>>,
     passed |-> {}]

WithoutDocument ==
    [name |-> "resolve_ticket", closure |-> "without_document", auto |-> PyTrue,
     doc |-> NA, arg |-> NA]

AllOk == [io |-> "ok", render |-> TRUE, sent |-> TRUE]

\* (variant) a save that writes the store as it is now, with the one row set
frame_reread(df, stored) == stored

\* update_multiple_fields between its load and its save: the frame written
\* back is the one read at the top of the call, whatever the store holds now
frame_at_save(df, stored) == df

\* GET /process_tickets by a manager: a new thread runs
\* run_on_all_open_tickets, which takes its snapshot of the open rows
TriggerPass(p) ==
    /\ process_tickets("manager")
    /\ eng[p].pc = "idle"
    /\ batch' = [batch EXCEPT ![p] = OpenTickets(get_all_tickets_df(tickets))]
    /\ eng' = [eng EXCEPT ![p] = [IdleThread EXCEPT !.pc = "loop"]]
    /\ ev' = Event("batch_start", NA, p, NA, 0, "", 0, <<>>)
    /\ UNCHANGED tickets

\* the pass hands the next row of its snapshot to process_ticket, which
\* returns at once when that row is closed
PassNext(p) ==
    /\ eng[p].pc = "loop"
    /\ batch[p] # <<>>
    /\ LET t == Head(batch[p])
       IN /\ batch' = [batch EXCEPT ![p] = Tail(@)]
          /\ eng' = [eng EXCEPT ![p] =
                        IF AlreadyClosed(t.row)
                        THEN [@ EXCEPT !.passed = @ \cup {t.id},
                                       !.results = Append(@, "already closed")]
                        ELSE [@ EXCEPT !.pc = "model", !.id = t.id,
                                       !.row = t.row,
                                       !.passed = @ \cup {t.id}]]
          /\ ev' = Event("process_ticket", t.id, p, NA, 0, "", 0, <<>>)
    /\ UNCHANGED tickets

\* the model's answer in a pass: text ends the call, a resolve_ticket call
\* leads to update_multiple_fields
PassModel(p) ==
    /\ eng[p].pc = "model"
    /\ \E kind \in {"text", "tools"} :
          /\ eng' = [eng EXCEPT ![p] =
                        IF kind = "text"
                        THEN [@ EXCEPT !.pc = "loop",
                                       !.results = Append(@, ModelText)]
                        ELSE [@ EXCEPT !.pc = "update"]]
          /\ ev' = Event("model_call", eng[p].id, p, kind, 0,
                         IF kind = "text" THEN ModelText ELSE "", 1, <<>>)
    /\ UNCHANGED <<tickets, batch>>

\* update_multiple_fields, first half: df = get_all_tickets_df()
PassLoad(p) ==
    /\ eng[p].pc = "update"
    /\ eng' = [eng EXCEPT ![p].pc = "loaded",
                          ![p].df = get_all_tickets_df(tickets)]
    /\ ev' = Event("load", eng[p].id, p, NA, 0, "", 1, <<>>)
    /\ UNCHANGED <<tickets, batch>>

\* update_multiple_fields, second half, and the rest of the resolve_ticket
\* branch: the frame is written back, the requester is told, the call returns
PassSave(p) ==
    /\ eng[p].pc = "loaded"
    /\ LET r == resolve_ticket(frame_at_save(eng[p].df, tickets), eng[p].id,
                               eng[p].row, WithoutDocument, NA, AllOk)
       IN /\ tickets' = r.tbl
          /\ eng' = [eng EXCEPT ![p].pc = "loop", ![p].df = <<>>,
                                ![p].results = Append(@, r.reply)]
          /\ ev' = Event("dispatch", eng[p].id, p, WithoutDocument.closure, 0,
                         r.reply, 1, r.log)
    /\ UNCHANGED batch

\* the pass has gone through its snapshot; the thread ends
PassEnd(p) ==
    /\ eng[p].pc = "loop"
    /\ batch[p] = <<>>
    /\ eng' = [eng EXCEPT ![p].pc = "idle"]
    /\ ev' = Event("batch_end", NA, p, NA, 0, "", 0, <<>>)
    /\ UNCHANGED <<tickets, batch>>

\* the manager opens the approve link of T2: the view has checked the token
\* and update_multiple_fields has loaded the sheet
RequestLoad ==
    /\ eng["request"].pc = "idle"
    /\ validate_token("T2", generate_approval_token("T2"))
    /\ eng' = [eng EXCEPT !["request"] =
                  [IdleThread EXCEPT !.pc = "loaded", !.id = "T2",
                                     !.df = get_all_tickets_df(tickets)]]
    /\ ev' = Event("load", "T2", "request", NA, 0, "", 0, <<>>)
    /\ UNCHANGED <<tickets, batch>>

\* the rest of approve_ticket: the frame is written back and the view answers
RequestSave ==
    /\ eng["request"].pc = "loaded"
    /\ LET r == approve_ticket(frame_at_save(eng["request"].df, tickets), "T2",
                               generate_approval_token("T2"), "ok", "ok", TRUE)
       IN /\ tickets' = r.tbl
          /\ ev' = Event("approve", "T2", "request",
                         generate_approval_token("T2"), r.code, r.reply, 0,
                         r.log)
    /\ eng' = [eng EXCEPT !["request"] = IdleThread]
    /\ UNCHANGED batch

InitThreads ==
    /\ tickets = [t \in TicketIds |->
                     IF t = "T1" THEN Row("Open", NA, "AP", "alice", NA, NA)
                     ELSE Row("Pending Manager Approval", PyTrue, "AP", "bob",
                              ModelText, "Yes")]
    /\ batch = [p \in Passes |-> <<>>]
    /\ eng = [t \in Threads |-> IdleThread]
    /\ ev = Event("init", NA, NA, NA, 0, "", 0, <<>>)

NextThreads ==
    \/ \E p \in Passes : TriggerPass(p)
    \/ \E p \in Passes : PassNext(p)
    \/ \E p \in Passes : PassModel(p)
    \/ \E p \in Passes : PassLoad(p)
    \/ \E p \in Passes : PassSave(p)
    \/ \E p \in Passes : PassEnd(p)
    \/ RequestLoad
    \/ RequestSave

SpecThreads == InitThreads /\ [][NextThreads]_vars

-----------------------------------------------------------------------------
(* Properties *)

\* the auto-resolution marker of a row is set
MarkerSet(row) ==
    row["Auto Solved"] \in {AUTO_STATUS_AUTO_RESOLVED, AUTO_STATUS_MANAGER_REVIEWED}

\* a request that got past the login gate with the token minted for its ticket
ValidLink(e, op) ==
    /\ e.op = op
    /\ e.sess = "user"
    /\ e.arg = generate_approval_token(e.id)

\* C1: At-most-one-automated-attempt. When a batch pass starts, no ticket
\* whose marker is set (auto-resolved-pending-review or manager-reviewed) or
\* whose status is Closed is in the rows the pass selected, and the pass never
\* calls process_ticket on such a row.
C1_OneAutomatedAttempt ==
    /\ ev.op = "batch_start" =>
          \A i \in 1..Len(batch.queue) :
             /\ ~MarkerSet(tickets[batch.queue[i].id])
             /\ tickets[batch.queue[i].id]["Ticket Status"] # "Closed"
    /\ (ev.op = "process_ticket" /\ ev.sess = "batch") =>
          ~MarkerSet(eng.row)

\* C2: Terminal-outcome exclusivity. After a terminal tool call whose store
\* update took effect, the stored status is Closed or Pending Manager Approval
\* (resolve_ticket, whatever the closure_type string), or Open with the
\* requested team as the assigned team (reassign_ticket_and_notify).
C2_TerminalOutcome ==
    (/\ ev.op = "dispatch"
     /\ Updates(ev.log) # <<>>
     /\ Updates(ev.log)[1].saved)
    => LET row == tickets[ev.id]
       IN \/ /\ ev.arg \in {"without_document", "with_document",
                            "reassign_billing"}
             /\ row["Ticket Status"] = "Closed"
          \/ /\ ev.arg = "needs_approval"
             /\ row["Ticket Status"] = "Pending Manager Approval"
          \/ /\ ev.arg = "reassign:AP"
             /\ row["Ticket Status"] = "Open"
             /\ row["Assigned Team"] = "AP"
          \/ /\ ev.arg = "reassign:ar"
             /\ row["Ticket Status"] = "Open"
             /\ row["Assigned Team"] = "AR"

\* a closure_type outside the documented ones closed the ticket
C2_Witness ==
    /\ ev.op = "dispatch"
    /\ ev.arg = "reassign_billing"
    /\ Updates(ev.log) # <<>>
    /\ Updates(ev.log)[1].saved
    /\ tickets[ev.id]["Ticket Status"] = "Closed"

\* C3: Token round-trip. The token minted for an id validates for that id; a
\* token minted for another id, the empty token and a missing token do not;
\* and the gateway refuses a link request exactly when its token is not the
\* one minted for its ticket id.
C3_TokenRoundTrip ==
    /\ \A id \in ReqIds :
          /\ validate_token(id, generate_approval_token(id))
          /\ \A id2 \in ReqIds \ {id} :
                ~validate_token(id, generate_approval_token(id2))
          /\ ~validate_token(id, "")
          /\ ~validate_token(id, NoToken)
    /\ (ev.op \in {"approve", "reject"} /\ ev.sess = "user") =>
          ((ev.code # 403) <=> (ev.arg = generate_approval_token(ev.id)))

\* T1's own token was accepted earlier (T1 is closed and manager-reviewed),
\* and now T2's token is refused for T1
C3_Witness ==
    /\ ev.op = "approve"
    /\ ev.sess = "user"
    /\ ev.id = "T1"
    /\ ev.arg = generate_approval_token("T2")
    /\ ev.code = 403
    /\ tickets["T1"]["Ticket Status"] = "Closed"
    /\ tickets["T1"]["Auto Solved"] = AUTO_STATUS_MANAGER_REVIEWED

\* C4: Invalid token never mutates state. An approve or reject request whose
\* token is not the one minted for its ticket id changes no field of any
\* ticket, sends no notification and calls no balancer, and the handler
\* answers 403.
C4_InvalidTokenNoChange ==
    [][(/\ ev'.op \in {"approve", "reject"}
        /\ ev'.arg # generate_approval_token(ev'.id))
       => /\ tickets' = tickets
          /\ ev'.log = <<>>
          /\ (ev'.sess = "user" => ev'.code = 403)]_vars

\* a tampered approve link for a ticket waiting for the manager was refused,
\* and the ticket still waits
C4_Witness ==
    /\ ev.op = "approve"
    /\ ev.sess = "user"
    /\ ev.id = "T1"
    /\ ev.arg = generate_approval_token("T2")
    /\ ev.code = 403
    /\ ev.log = <<>>
    /\ tickets["T1"]["Ticket Status"] = "Pending Manager Approval"

\* C5: Reject-then-reassign. Rejecting a ticket in Pending Manager Approval
\* with a valid token always leaves it Open, manager-reviewed, review-needed
\* No, with exactly one balancer call for that ticket after the store update
\* succeeded, and the response tells whether the balancer assigned someone.
C5_RejectThenReassign ==
    [][(/\ ValidLink(ev', "reject")
        /\ ev'.id \in TicketIds
        /\ tickets[ev'.id]["Ticket Status"] = "Pending Manager Approval")
       => /\ tickets'[ev'.id]["Ticket Status"] = "Open"
          /\ tickets'[ev'.id]["Auto Solved"] = AUTO_STATUS_MANAGER_REVIEWED
          /\ tickets'[ev'.id]["Admin Review Needed"] = "No"
          /\ Len(Assigns(ev'.log)) = 1
          /\ Assigns(ev'.log)[1].id = ev'.id
          /\ ev'.log[1].k = "update"
          /\ ev'.log[1].ok
          /\ ev'.log[2].k = "assign"
          /\ (ev'.reply = "reopened, assigned"
                 <=> (Len(Updates(ev'.log)) = 2 /\ Updates(ev'.log)[2].ok))
          /\ (ev'.reply = "reopened, not assigned"
                 <=> ~(Len(Updates(ev'.log)) = 2 /\ Updates(ev'.log)[2].ok))]_vars

\* C6: Approve with a valid token. The ticket becomes Closed, manager-reviewed,
\* review-needed No, with a closed timestamp, and the requester gets at most
\* one resolution notification, carrying the stored AI response; or the store
\* update failed, the ticket is as it was, the reply is a server error and no
\* notification is sent.
C6_ApproveValid ==
    [][(/\ ValidLink(ev', "approve")
        /\ ev'.id \in TicketIds)
       => \/ /\ ev'.code = 200
             /\ tickets'[ev'.id]["Ticket Status"] = "Closed"
             /\ tickets'[ev'.id]["Auto Solved"] = AUTO_STATUS_MANAGER_REVIEWED
             /\ tickets'[ev'.id]["Admin Review Needed"] = "No"
             /\ tickets'[ev'.id]["Ticket Closed Date"] = NOW
             /\ Len(Mails(ev'.log)) <= 1
             /\ \A i \in 1..Len(Mails(ev'.log)) :
                   /\ Mails(ev'.log)[i].kind = "resolved"
                   /\ Mails(ev'.log)[i].to
                         = get_user_email_by_name(tickets[ev'.id]["User Name"])
                   /\ Mails(ev'.log)[i].text = tickets[ev'.id]["AI Response"]
          \/ /\ ev'.code = 500
             /\ tickets' = tickets
             /\ Mails(ev'.log) = <<>>]_vars

\* C7: Approve is idempotent with respect to notifications. The valid approve
\* link submitted again for a ticket an approval has already closed sends the
\* requester no further resolution notification.
C7_SecondApproveSilent ==
    [][(/\ ValidLink(ev', "approve")
        /\ ev'.id \in TicketIds
        /\ tickets[ev'.id]["Ticket Status"] = "Closed"
        /\ tickets[ev'.id]["Auto Solved"] = AUTO_STATUS_MANAGER_REVIEWED)
       => \A i \in 1..Len(Mails(ev'.log)) : ~Mails(ev'.log)[i].sent]_vars

\* C8: Approve and reject links are authorized by the token alone. A request
\* with the valid token and no logged-in session reaches the handler and is
\* not sent to the login page.
C8_TokenAlone ==
    (/\ ev.op \in {"approve", "reject"}
     /\ ev.sess = "none"
     /\ ev.arg = generate_approval_token(ev.id))
    => /\ ev.reply # "login"
       /\ ev.code # 302

\* the row process_ticket is about to be given by the step that enters it
PassedRow ==
    IF ev'.sess = "batch" THEN Head(batch.queue).row ELSE tickets[ev'.id]

\* C9: Closed precondition. process_ticket on a ticket whose status is Closed
\* in any letter case returns the already-closed result at once: no model
\* call, no store update, no notification, no document.
C9_ClosedSkipped ==
    [][(/\ ev'.op = "process_ticket"
        /\ PassedRow["Ticket Status"] \in {"Closed", "CLOSED"})
       => /\ ev'.reply = "Ticket is already closed."
          /\ ev'.calls = 0
          /\ ev'.log = <<>>
          /\ tickets' = tickets
          /\ eng'.pc = "idle"]_vars

\* process_ticket was called on the ticket stored as CLOSED and skipped it
C9_Witness ==
    /\ ev.op = "process_ticket"
    /\ ev.id = "T2"
    /\ tickets["T2"]["Ticket Status"] = "CLOSED"
    /\ ev.reply = "Ticket is already closed."
    /\ ev.calls = 0
    /\ eng.pc = "idle"

\* C10: Bounded conversation. A process_ticket call makes at most 6 model
\* calls: no further model call is due once 6 were made, whatever the model
\* answers.
C10_BoundedConversation ==
    /\ ev.calls <= 6
    /\ eng.turn <= 6
    /\ (eng.pc = "model" => eng.turn < 6)

\* the sixth answer, like the ones before, carried no terminal tool call, and
\* the call returned
C10_Witness ==
    /\ ev.op = "dispatch"
    /\ ev.reply = "Max turns reached without resolution"
    /\ ev.calls = 6
    /\ eng.pc = "idle"

\* C11: No terminal tool, no effect. Every step of a process_ticket call
\* other than a resolve_ticket or reassign_ticket_and_notify dispatch (entering
\* the call, a model call, a search_invoices or unknown tool call, the end of
\* a tool list, the free-text return, the turn-limit return) leaves every
\* ticket field unchanged and sends nothing, and a search_invoices call keeps
\* the loop running.
C11_NoTerminalNoEffect ==
    [][(\/ ev'.op \in {"process_ticket", "model_call"}
        \/ /\ ev'.op = "dispatch"
           /\ ev'.arg \in {"search_invoices", "lookup_vendor", "end of list"})
       => /\ tickets' = tickets
          /\ Mails(ev'.log) = <<>>
          /\ Updates(ev'.log) = <<>>
          /\ (ev'.arg = "search_invoices" => eng'.pc = "dispatch")]_vars

\* the call on T1 ran out of turns, and T1 is as it was before the call
C11_Witness ==
    /\ ev.op = "dispatch"
    /\ ev.id = "T1"
    /\ ev.reply = "Max turns reached without resolution"
    /\ tickets["T1"] = Row("Open", NA, "AP", "alice", NA, NA)

\* a terminal tool call with this argument was dispatched, and whether its
\* store update was written to the sheet
Dispatched(arg) == ev.op = "dispatch" /\ ev.arg = arg
Written == Updates(ev.log) # <<>> /\ Updates(ev.log)[1].saved

\* C12: without_document outcome. After resolve_ticket with closure_type
\* without_document and a successful store update the ticket is Closed, its
\* marker is auto-resolved-pending-review whatever auto_solved the model
\* supplied, and its AI response is the model's explanation.
C12_WithoutDocument ==
    (Dispatched("without_document") /\ Written)
    => /\ tickets[ev.id]["Ticket Status"] = "Closed"
       /\ tickets[ev.id]["Auto Solved"] = AUTO_STATUS_AUTO_RESOLVED
       /\ tickets[ev.id]["AI Response"] = ModelText

\* C13 as stated: after resolve_ticket with closure_type needs_approval the
\* ticket is in Pending Manager Approval with the review flag set, and the
\* requester got no notification in that call.
C13_NeedsApprovalAsStated ==
    Dispatched("needs_approval")
    => /\ tickets[ev.id]["Ticket Status"] = "Pending Manager Approval"
       /\ tickets[ev.id]["Admin Review Needed"] = "Yes"
       /\ \A i \in 1..Len(Mails(ev.log)) : Mails(ev.log)[i].kind = "approval"

\* C13: needs_approval outcome. After resolve_ticket with closure_type
\* needs_approval the requester got no notification in that call, and when
\* the store update succeeded the ticket is in Pending Manager Approval with
\* the review flag set.
C13_NeedsApproval ==
    Dispatched("needs_approval")
    => /\ \A i \in 1..Len(Mails(ev.log)) :
             /\ Mails(ev.log)[i].kind = "approval"
             /\ Mails(ev.log)[i].to # get_user_email_by_name(
                                          tickets[ev.id]["User Name"])
       /\ Written =>
             /\ tickets[ev.id]["Ticket Status"] = "Pending Manager Approval"
             /\ tickets[ev.id]["Admin Review Needed"] = "Yes"

\* alice's ticket waits for the manager; only the manager was written to
C13_Witness ==
    /\ Dispatched("needs_approval")
    /\ Written
    /\ ev.id = "T1"
    /\ tickets["T1"]["Ticket Status"] = "Pending Manager Approval"
    /\ tickets["T1"]["Admin Review Needed"] = "Yes"
    /\ Len(Mails(ev.log)) = 1

\* C14: needs_approval with a manager. When the ticket's team has a manager,
\* exactly one notification is sent in the call, to that manager, with an
\* approve link and a reject link for this ticket id that differ and carry a
\* token validate_token accepts for this id.
C14_ManagerNotified ==
    (Dispatched("needs_approval") /\ tickets[ev.id]["Assigned Team"] = "AP")
    => /\ Len(Mails(ev.log)) = 1
       /\ Mails(ev.log)[1].to = "carol@ey.com"
       /\ Len(Mails(ev.log)[1].links) = 2
       /\ Mails(ev.log)[1].links[1] # Mails(ev.log)[1].links[2]
       /\ \E token \in Tokens :
             /\ validate_token(ev.id, token)
             /\ Mails(ev.log)[1].links[1]
                   = "http://localhost:5000/ticket/approve/" \o ev.id
                     \o "?token=" \o token
             /\ Mails(ev.log)[1].links[2]
                   = "http://localhost:5000/ticket/reject/" \o ev.id
                     \o "?token=" \o token

\* the AP manager was sent the two links for T1
C14_Witness ==
    /\ Dispatched("needs_approval")
    /\ ev.id = "T1"
    /\ tickets["T1"]["Assigned Team"] = "AP"
    /\ Len(Mails(ev.log)) = 1
    /\ Mails(ev.log)[1].to = "carol@ey.com"
    /\ Len(Mails(ev.log)[1].links) = 2

\* C15 as stated: when the ticket's team has no manager, the ticket still ends
\* in Pending Manager Approval with the review flag set, nothing is sent and
\* process_ticket returns normally.
C15_NoManagerAsStated ==
    (Dispatched("needs_approval") /\ tickets[ev.id]["Assigned Team"] = "AR")
    => /\ tickets[ev.id]["Ticket Status"] = "Pending Manager Approval"
       /\ tickets[ev.id]["Admin Review Needed"] = "Yes"
       /\ Mails(ev.log) = <<>>
       /\ ev.reply = "Ticket " \o ev.id \o ": needs_approval"

\* C15: needs_approval without a manager. When the ticket's team has no
\* manager, nothing is sent and process_ticket returns normally, and when the
\* store update succeeded the ticket is in Pending Manager Approval with the
\* review flag set.
C15_NoManager ==
    (Dispatched("needs_approval") /\ tickets[ev.id]["Assigned Team"] = "AR")
    => /\ Mails(ev.log) = <<>>
       /\ ev.reply = "Ticket " \o ev.id \o ": needs_approval"
       /\ eng.pc = "idle"
       /\ Written =>
             /\ tickets[ev.id]["Ticket Status"] = "Pending Manager Approval"
             /\ tickets[ev.id]["Admin Review Needed"] = "Yes"

\* the AR ticket, whose team has no manager, waits for approval in silence
C15_Witness ==
    /\ Dispatched("needs_approval")
    /\ Written
    /\ ev.id = "T2"
    /\ tickets["T2"]["Assigned Team"] = "AR"
    /\ tickets["T2"]["Ticket Status"] = "Pending Manager Approval"
    /\ tickets["T2"]["Admin Review Needed"] = "Yes"
    /\ Mails(ev.log) = <<>>

\* C16: reassign outcome. After reassign_ticket_and_notify with target team X
\* and a successful store update the ticket's team is X, its status Open and
\* its marker false, and the requester and the previously assigned person are
\* each notified when their email resolves; nothing is sent if the store
\* update failed.
C16_ReassignOutcome ==
    \A team \in {"AP", "ar"} :
       Dispatched("reassign:" \o team)
       => LET row == tickets[ev.id]
              email == get_user_email_by_name(row["User Name"])
          IN /\ Written =>
                   /\ row["Assigned Team"] = (IF team = "ar" THEN "AR" ELSE "AP")
                   /\ row["Ticket Status"] = "Open"
                   /\ row["Auto Solved"] = PyFalse
                   /\ email # NA =>
                         /\ \E i \in 1..Len(Mails(ev.log)) :
                               /\ Mails(ev.log)[i].kind = "assigned to specialist"
                               /\ Mails(ev.log)[i].to = email
                         /\ \E i \in 1..Len(Mails(ev.log)) :
                               /\ Mails(ev.log)[i].kind = "new ticket"
                               /\ Mails(ev.log)[i].to = email
             /\ ~Written => Mails(ev.log) = <<>>

\* the tool call in hand is a with_document resolution of T2, whose
\* description names no invoice, and no search has found one in this call
NoInvoiceResolvable ==
    /\ eng.pc = "dispatch"
    /\ eng.id = "T2"
    /\ eng.cached = NA
    /\ ev'.op = "dispatch"
    /\ ev'.arg = "with_document"

C18_TempFileDeleted ==
    Dispatched("with_document")
    => \A i \in 1..Len(ev.log) :
          (ev.log[i].k = "render" /\ ev.log[i].ok)
          => \E j \in (i + 1)..Len(ev.log) : ev.log[j].k = "delete"

\* C19: Failure containment in the batch. A process_ticket call made by a
\* batch pass never ends by raising, and a pass with selected tickets left
\* goes on with them: no step drops the rest of its snapshot.
C19_BatchContainsFailures ==
    [][/\ (ev'.sess = "batch" /\ ev'.op \in {"model_call", "dispatch"})
             => ev'.reply # "raised"
       /\ (batch.active /\ batch.queue # <<>>)
             => /\ batch'.active
                /\ batch'.queue \in {batch.queue, Tail(batch.queue)}]_vars

\* C20: Store write failure is reported. update_multiple_fields returns true
\* only if the updated table was written back.
C20_TrueMeansWritten ==
    \A i \in 1..Len(Updates(ev.log)) :
       Updates(ev.log)[i].ok => Updates(ev.log)[i].saved

-----------------------------------------------------------------------------
\* C21 (review queue definition): in every reachable state of the store the
\* review queue shown to managers is exactly the set of tickets whose marker
\* is auto-resolved-pending-review and whose status is Closed, and holds no
\* ticket that is Open or in Pending Manager Approval. The dashboard selects
\* on "Auto Solved" == True alone, so this is violated.
C21_ReviewQueue ==
    /\ review_tickets(tickets)
         = {t \in DOMAIN tickets :
               /\ tickets[t]["Auto Solved"] = AUTO_STATUS_AUTO_RESOLVED
               /\ tickets[t]["Ticket Status"] = "Closed"}
    /\ \A t \in review_tickets(tickets) :
          tickets[t]["Ticket Status"] \notin {"Open", "Pending Manager Approval"}

-----------------------------------------------------------------------------
\* a review request of a manager or an admin for a ticket of the sheet
ReviewBy(e, action) ==
    /\ e.op = "review"
    /\ e.arg = action
    /\ e.sess \in {"manager", "admin"}
    /\ e.id \in DOMAIN tickets

\* C22 as stated (review confirm_closed): review_ticket_action with action
\* confirm_closed clears the ticket's marker and review-needed flag, leaves
\* its status unchanged, takes the ticket out of the review queue, calls no
\* balancer and sends no notification. Stated without a condition on the
\* store update, it is violated when the update fails.
C22_ConfirmClosedAsStated ==
    [][ReviewBy(ev', "confirm_closed") =>
        /\ tickets'[ev'.id]["Auto Solved"] = PyFalse
        /\ tickets'[ev'.id]["Admin Review Needed"] = "No"
        /\ tickets'[ev'.id]["Ticket Status"] = tickets[ev'.id]["Ticket Status"]
        /\ ev'.id \notin review_tickets(tickets')
        /\ Assigns(ev'.log) = <<>>
        /\ Mails(ev'.log) = <<>>]_vars

\* C22 (review confirm_closed, amended): the request calls no balancer, sends
\* no notification and leaves the status of every ticket as it was; if its
\* store update succeeded the ticket's marker and review-needed flag are
\* cleared and the ticket is not in the review queue, and otherwise the sheet
\* is unchanged.
C22_ConfirmClosed ==
    [][ReviewBy(ev', "confirm_closed") =>
        /\ Assigns(ev'.log) = <<>>
        /\ Mails(ev'.log) = <<>>
        /\ Len(ev'.log) = 1
        /\ \A t \in DOMAIN tickets :
              tickets'[t]["Ticket Status"] = tickets[t]["Ticket Status"]
        /\ \A t \in DOMAIN tickets \ {ev'.id} : tickets'[t] = tickets[t]
        /\ IF ev'.log[1].saved
           THEN /\ tickets'[ev'.id]["Auto Solved"] = PyFalse
                /\ tickets'[ev'.id]["Admin Review Needed"] = "No"
                /\ ev'.id \notin review_tickets(tickets')
           ELSE tickets' = tickets]_vars

\* a closed ticket of the review queue was confirmed: it is still Closed and
\* out of the queue
C22_Witness ==
    /\ ev.op = "review"
    /\ ev.arg = "confirm_closed"
    /\ ev.sess = "manager"
    /\ ev.id = "T1"
    /\ ev.reply = "confirm_closed"
    /\ Len(ev.log) = 1
    /\ ev.log[1].saved
    /\ tickets["T1"]["Ticket Status"] = "Closed"
    /\ tickets["T1"]["Auto Solved"] = PyFalse
    /\ "T1" \notin review_tickets(tickets)

-----------------------------------------------------------------------------
\* C23 (review reopen ordering): review_ticket_action with action reopen
\* first writes status Open and the cleared marker to the store and only then
\* calls the Workload Balancer for the ticket. The view calls the balancer
\* before its update, so this is violated.
C23_ReopenOrder ==
    (ReviewBy(ev, "reopen") /\ Assigns(ev.log) # <<>>) =>
        \E i, j \in 1..Len(ev.log) :
           /\ i < j
           /\ ev.log[i].k = "update"
           /\ \E n \in 1..Len(ev.log[i].fields) :
                 ev.log[i].fields[n] = <<"Ticket Status", "Open">>
           /\ ev.log[j].k = "assign"

-----------------------------------------------------------------------------
\* the persons that appear as assignee in a table, and how many tickets of a
\* person are Open in it
Assignees(tbl) == {tbl[t]["User Name"] : t \in DOMAIN tbl}
OpenLoad(tbl, name) ==
    Cardinality({t \in DOMAIN tbl : /\ tbl[t]["User Name"] = name
                                    /\ tbl[t]["Ticket Status"] = "Open"})
MinimalIn(tbl, name) ==
    /\ name \in Assignees(tbl)
    /\ \A other \in Assignees(tbl) : OpenLoad(tbl, name) <= OpenLoad(tbl, other)

\* a reopen request that got as far as auto_assign_single_ticket, which then
\* read the sheet as the request found it; its call is the first entry of the
\* log and its update, when it made one, the second
BalancerCalled(e) ==
    /\ e.op = "review"
    /\ e.arg = "reopen"
    /\ Assigns(e.log) # <<>>

-----------------------------------------------------------------------------
\* the bulk assignments, the (ticket, person) picks of one in order, its
\* candidate pool, and the count the call holds in memory for a person when it
\* comes to its k-th pick
BulkOps == {"auto_assign_tickets", "intelligent_assign_tickets"}
BulkPicks(log) ==
    LET picked == SelectSeq(log, LAMBDA e : e.k \in {"update", "pick"})
    IN [k \in 1..Len(picked) |->
           [id |-> picked[k].id,
            to |-> IF picked[k].k = "update" THEN picked[k].fields[1][2]
                   ELSE picked[k].to]]
Candidates(op, tbl) ==
    IF op = "auto_assign_tickets" THEN Assignees(tbl)
    ELSE {employees[i] : i \in 1..Len(employees)}
InMemory(tbl, picks, k, name) ==
    OpenLoad(tbl, name)
      + Cardinality({j \in 1..(k - 1) : picks[j].to = name})

\* C25 (bulk balancer greedy step): in one bulk assignment the workload map
\* is built once and each target ticket in turn goes to the candidate whose
\* in-memory count is the lowest at that moment, the count of the chosen
\* candidate rising by one before the next ticket. The /auto_assign_tickets
\* view walks the list sorted at the start round-robin instead, so this is
\* violated.
C25_GreedyStep ==
    [][ev'.op \in BulkOps =>
        LET picks == BulkPicks(ev'.log)
        IN \A k \in 1..Len(picks) :
              \A other \in Candidates(ev'.op, tickets) :
                 InMemory(tickets, picks, k, picks[k].to)
                    <= InMemory(tickets, picks, k, other)]_vars

-----------------------------------------------------------------------------
\* where a candidate stands in the iteration order of the workload map: the
\* view's map is keyed by df["User Name"].unique(), in order of first
\* appearance in the sheet, the library function's by the employees in file
\* order
FirstRow(tbl, name) ==
    CHOOSE i \in 1..Len(SheetOrder(tbl)) :
       /\ tbl[SheetOrder(tbl)[i]]["User Name"] = name
       /\ \A j \in 1..(i - 1) : tbl[SheetOrder(tbl)[j]]["User Name"] # name
MapPosition(op, tbl, name) ==
    IF op = "auto_assign_tickets" THEN FirstRow(tbl, name)
    ELSE CHOOSE i \in 1..Len(employees) : employees[i] = name

\* the picks of the same bulk assignment run again on the same table, with
\* every store access succeeding
PicksAgain(op, tbl) ==
    IF op = "auto_assign_tickets"
    THEN BulkPicks(auto_assign_tickets(
                       tbl, "admin", "ok", [i \in 1..Len(DeskOrder) |-> "ok"]).log)
    ELSE BulkPicks(intelligent_assign_tickets(tbl, "ok", "ok").log)

\* C26 (bulk balancer first pick and tie-break): in a bulk assignment the
\* first ticket goes to a candidate whose initial count of Open tickets is
\* the least, among candidates of equal count to the one that comes first in
\* the iteration order of the workload map, and the picks are those of any
\* other call on the same table.
C26_FirstPick ==
    [][(ev'.op \in BulkOps /\ BulkPicks(ev'.log) # <<>>) =>
        LET picks == BulkPicks(ev'.log)
            first == picks[1].to
        IN /\ first \in Candidates(ev'.op, tickets)
           /\ \A other \in Candidates(ev'.op, tickets) :
                 \/ OpenLoad(tickets, first) < OpenLoad(tickets, other)
                 \/ /\ OpenLoad(tickets, first) = OpenLoad(tickets, other)
                    /\ MapPosition(ev'.op, tickets, first)
                          <= MapPosition(ev'.op, tickets, other)
           /\ picks = PicksAgain(ev'.op, tickets)]_vars

\* the view has assigned the two open tickets of a sheet, the first to alice
\* and the second to bob
C26_Witness ==
    /\ ev.op = "auto_assign_tickets"
    /\ ev.reply = "complete"
    /\ BulkPicks(ev.log) = <<[id |-> "T1", to |-> "alice"],
                             [id |-> "T3", to |-> "bob"]>>
    /\ \A i \in 1..Len(ev.log) : ev.log[i].saved
    /\ tickets["T1"]["User Name"] = "alice"
    /\ tickets["T3"]["User Name"] = "bob"
    /\ tickets["T2"]["Ticket Status"] = "Closed"

-----------------------------------------------------------------------------
\* a request to one of the role-checked views from a session that is neither
\* a manager's nor an admin's
WrongRole(e) ==
    /\ e.op \in {"process_tickets", "batch_start", "auto_assign_tickets",
                 "review"}
    /\ e.sess \in {"none", "employee"}

\* C27 (role authorization): a request to /process_tickets,
\* /auto_assign_tickets or /review_ticket_action from a session whose role is
\* neither manager nor admin is answered with a redirect, changes nothing in
\* the store, starts no batch pass and calls no balancer.
C27_RoleAuthorization ==
    [][WrongRole(ev') =>
        /\ ev'.op # "batch_start"
        /\ ev'.code = 302
        /\ ev'.reply \in {"login", "managers only"}
        /\ ev'.log = <<>>
        /\ tickets' = tickets
        /\ batch' = batch
        /\ eng' = eng]_vars

\* an employee asked for a batch pass while T1 was open: no pass runs and T1
\* is as it was
C27_Witness ==
    /\ ev.op = "process_tickets"
    /\ ev.sess = "employee"
    /\ ev.reply = "managers only"
    /\ ~batch.active
    /\ tickets["T1"]["Ticket Status"] = "Open"

-----------------------------------------------------------------------------
\* C28 (pending tickets belong to the gateway): the status of a ticket in
\* Pending Manager Approval is changed by approve_ticket, reject_ticket or
\* review_ticket_action only, never by process_ticket in a batch pass. A pass
\* takes every row that is not closed, pending ones too, so this is violated.
C28_PendingLeftToGateway ==
    [][\A t \in DOMAIN tickets :
          (/\ tickets[t]["Ticket Status"] = "Pending Manager Approval"
           /\ tickets'[t]["Ticket Status"] # "Pending Manager Approval")
          => ev'.op \in {"approve", "reject", "review"}]_vars

-----------------------------------------------------------------------------
\* C29 (no notification on a failed store update): within process_ticket, for
\* every closure type, needs_approval too, every notification send comes
\* after a store update for the ticket that returned success, and none is
\* made when the update reported failure. The needs_approval branch mails the
\* manager before the update is attempted, so this is violated.
C29_SendAfterUpdate ==
    ev.op = "dispatch" =>
        \A i \in 1..Len(ev.log) :
           ev.log[i].k = "mail" =>
              \E j \in 1..(i - 1) : /\ ev.log[j].k = "update"
                                    /\ ev.log[j].id = ev.id
                                    /\ ev.log[j].ok

-----------------------------------------------------------------------------
\* where the store update of a terminal outcome stands in the log of its
\* step, and whether a send after it failed
UpdateAt(log) == CHOOSE i \in 1..Len(log) : log[i].k = "update"
SendFailedAfterUpdate(e) ==
    /\ e.op = "dispatch"
    /\ Updates(e.log) # <<>>
    /\ e.log[UpdateAt(e.log)].saved
    /\ \E j \in (UpdateAt(e.log) + 1)..Len(e.log) :
          e.log[j].k = "mail" /\ ~e.log[j].sent

\* C30 (notification failure does not roll back): when the store update of a
\* terminal outcome succeeded and a notification send after it returned
\* false, the ticket holds every field the update wrote (status, marker, AI
\* response), the call makes no other store write, and no send is made twice.
C30_NoRollback ==
    [][SendFailedAfterUpdate(ev') =>
        LET at == UpdateAt(ev'.log)
            written == ev'.log[at].fields
        IN /\ \A n \in 1..Len(written) :
                 tickets'[ev'.id][written[n][1]] = written[n][2]
           /\ Len(Updates(ev'.log)) = 1
           /\ \A t \in DOMAIN tickets \ {ev'.id} : tickets'[t] = tickets[t]
           /\ \A i, j \in (at + 1)..Len(ev'.log) :
                 (/\ i < j
                  /\ ev'.log[i].k = "mail"
                  /\ ev'.log[j].k = "mail")
                 => <<ev'.log[i].to, ev'.log[i].kind>>
                      # <<ev'.log[j].to, ev'.log[j].kind>>]_vars

\* T1 was closed without a document, the mail to its requester failed, and
\* T1 is Closed with the AI response stored
C30_Witness ==
    /\ ev.op = "dispatch"
    /\ ev.arg = "without_document"
    /\ ev.id = "T1"
    /\ Len(ev.log) = 2
    /\ ev.log[1].k = "update"
    /\ ev.log[1].saved
    /\ ev.log[2].k = "mail"
    /\ ~ev.log[2].sent
    /\ tickets["T1"]["Ticket Status"] = "Closed"
    /\ tickets["T1"]["AI Response"] = ModelText

-----------------------------------------------------------------------------
\* the closure types a resolve_ticket call may carry
ClosureTypes ==
    {"without_document", "with_document", "needs_approval", "reassign_billing"}

\* C31 (failed store update is visible in the outcome): when the store update
\* of a resolve_ticket call fails, process_ticket returns a string other than
\* the one it returns on success, so the result names no closure type for a
\* ticket whose row was not changed. The branch returns the same
\* "Ticket <id>: <closure_type>" on both paths, so this is violated.
C31_FailureVisible ==
    (/\ ev.op = "dispatch"
     /\ ev.arg \in ClosureTypes
     /\ Updates(ev.log) # <<>>
     /\ ~Updates(ev.log)[1].ok)
    => ev.reply # "Ticket " \o ev.id \o ": " \o ev.arg

-----------------------------------------------------------------------------
\* the steps of a process_ticket call, and the terminal tool calls
EngineOps == {"process_ticket", "model_call", "dispatch"}
TerminalArgs == ClosureTypes \cup {"reassign:AP", "reassign:ar"}

\* C32 (single terminal transition per call): a process_ticket call makes at
\* most one ticket-store update: no step of it makes more than one, a step
\* that leaves the call running makes none and changes no ticket, and the
\* step that dispatches a resolve_ticket or reassign_ticket_and_notify call
\* ends the call, so that nothing listed after it is dispatched.
C32_SingleTerminal ==
    [][ev'.op \in EngineOps =>
        /\ Len(Updates(ev'.log)) <= 1
        /\ eng'.pc # "idle" => (Updates(ev'.log) = <<>> /\ tickets' = tickets)
        /\ (ev'.op = "dispatch" /\ ev'.arg \in TerminalArgs)
              => (eng.pc = "dispatch" /\ eng' = IdleEngine)
        /\ Updates(ev'.log) # <<>>
              => (ev'.op = "dispatch" /\ ev'.arg \in TerminalArgs)]_vars

\* a closure was dispatched: it made the one store update of the call and the
\* call is over
C32_Witness ==
    /\ ev.op = "dispatch"
    /\ ev.arg = "without_document"
    /\ Len(Updates(ev.log)) = 1
    /\ Updates(ev.log)[1].saved
    /\ eng = IdleEngine
    /\ tickets[ev.id]["Ticket Status"] = "Closed"

-----------------------------------------------------------------------------
\* C33 (transcript protocol): every tool call the loop dispatches and goes on
\* from, whatever its name, leaves a tool-result message in the transcript,
\* so that when the list of a turn ends and the next model call is due the
\* last tool call dispatched has its result. Only the search_invoices branch
\* appends one, so this is violated by any other tool name.
C33_TranscriptProtocol ==
    [][(ev'.op = "dispatch" /\ eng'.pc \in {"dispatch", "model"}) =>
        IF ev'.arg = "end of list"
        THEN /\ ev.op = "dispatch"
             /\ Len(ev.log) = 1
             /\ ev.log[1].k = "tool result"
        ELSE /\ Len(ev'.log) = 1
             /\ ev'.log[1].k = "tool result"]_vars

-----------------------------------------------------------------------------
\* the documents a step rendered, and the first candidate of a ticket that
\* is the number of an invoice (NA when none is)
Renders(log) == SelectSeq(log, LAMBDA e : e.k = "render")
FirstHit(ticket_id) ==
    LET c == extract_invoice_candidates(ticket_id)
        hits == {i \in 1..Len(c) : c[i] \in InvoiceNumbers}
    IN IF hits = {} THEN NA
       ELSE c[CHOOSE i \in hits : \A j \in hits : i <= j]

-----------------------------------------------------------------------------
\* C35 (not-found update): update_multiple_fields called with a ticket id
\* that matches no row returns false and leaves the persisted table as it
\* was: no field of any row changes and no updated-timestamp is stamped.
C35_NotFoundUpdate ==
    [][\A i \in 1..Len(ev'.log) :
          (ev'.log[i].k = "update" /\ ev'.log[i].id \notin DOMAIN tickets)
          => /\ ~ev'.log[i].ok
             /\ ~ev'.log[i].saved
             /\ tickets' = tickets]_vars

\* a manager confirmed the absent T9: the one update of the request returned
\* false
C35_Witness ==
    /\ ev.op = "review"
    /\ ev.arg = "confirm_closed"
    /\ ev.id = "T9"
    /\ ev.id \notin DOMAIN tickets
    /\ ev.reply = "update failed"
    /\ Len(ev.log) = 1
    /\ ev.log[1].k = "update"
    /\ ev.log[1].id = "T9"
    /\ ~ev.log[1].ok

-----------------------------------------------------------------------------
\* C36 (closed tickets are not re-entered under interleaving): while a batch
\* pass runs beside the gateway's requests, process_ticket makes no store
\* update on a ticket whose stored status is Closed when the update is made.
\* The pass works on the rows of its snapshot and process_ticket tests the
\* status of the row it was handed, so this is violated.
C36_ClosedNotUpdated ==
    [][(/\ ev'.op = "dispatch"
        /\ ev'.sess = "batch"
        /\ Updates(ev'.log) # <<>>
        /\ Updates(ev'.log)[1].ok)
       => Lower(tickets[ev'.id]["Ticket Status"]) # "closed"]_vars

-----------------------------------------------------------------------------
\* C39 (gateway transitions start from Pending only): approve_ticket and
\* reject_ticket with a valid token change the status of a ticket only when
\* it is in Pending Manager Approval; on a ticket that is Open or Closed they
\* leave the status as it is. Neither view reads the status, so this is
\* violated.
C39_FromPendingOnly ==
    [][(/\ ev'.op \in {"approve", "reject"}
        /\ ev'.id \in DOMAIN tickets
        /\ validate_token(ev'.id, ev'.arg)
        /\ tickets[ev'.id]["Ticket Status"] # "Pending Manager Approval")
       => tickets'[ev'.id]["Ticket Status"]
             = tickets[ev'.id]["Ticket Status"]]_vars

\* the columns an update dict names, after alias mapping
NamedColumns(updates) == {FieldMap(updates[i][1]) : i \in 1..Len(updates)}

\* C40: a successful update_multiple_fields(id, updates) changes only the row
\* of id, and in it only the columns named in updates (after alias mapping)
\* and the updated-timestamp; every other cell of the sheet is unchanged
C40_PointUpdateFrame ==
    [][(ev'.op = "update" /\ ev'.log[1].ok) =>
          \A t \in DOMAIN tickets : \A c \in Columns :
              tickets'[t][c] # tickets[t][c] =>
                  /\ t = ev'.id
                  /\ c \in NamedColumns(ev'.log[1].fields)
                              \cup {"Ticket Updated Date"}]_vars

\* threads inside update_multiple_fields, between its load and its save
Saving == {t \in Threads : eng[t].pc = "loaded"}

\* C37: writers take no lock and check no version: what a save leaves of the
\* other tickets' rows is the saver's frame as it loaded it, so an update
\* another writer saved in between is gone though both calls report success
C37_LastWriterWins ==
    [][\A t \in Saving :
          (eng'[t].pc # "loaded" /\ ev'.sess = t) =>
              /\ \A other \in DOMAIN tickets \ {eng[t].id} :
                    tickets'[other] = eng[t].df[other]
              /\ Updates(ev'.log) # <<>> /\ Updates(ev'.log)[1].ok]_vars

\* a pass closed T1 and said so, then the approve request, which had loaded
\* the sheet before, answered 200: T2 is closed and T1 is open as before
C37_Witness ==
    /\ ev.op = "approve" /\ ev.code = 200
    /\ \E p \in Passes :
          \E i \in 1..Len(eng[p].results) :
              eng[p].results[i] = "Ticket T1: without_document"
    /\ tickets["T2"]["Ticket Status"] = "Closed"
    /\ tickets["T1"] = Row("Open", NA, "AP", "alice", NA, NA)

\* passes with a process_ticket call in progress
InCall == {p \in Passes : eng[p].pc \in {"model", "update", "loaded"}}

\* C38: at no moment are two process_ticket calls in progress, and no ticket
\* is handed to process_ticket by two passes that overlap
C38_OnePassAtATime ==
    /\ Cardinality(InCall) <= 1
    /\ \A p, q \in Passes :
          (p # q /\ eng[p].pc # "idle" /\ eng[q].pc # "idle") =>
              eng[p].passed \cap eng[q].passed = {}

====
